---- MODULE Spec2Model ----
(***************************************************************************)
(* A model of AdvancedCompressionEngine (src/arch/builder.py): the         *)
(* adaptive binary-to-text encoding engine.                                *)
(*                                                                         *)
(* Representation.                                                         *)
(*   - a Python str is a sequence of one-character strings;                *)
(*   - a Python bytes value handed to a text codec is a sequence of        *)
(*     integers 0..255;                                                    *)
(*   - a payload handed to the engine is a Blob [head, zeros]: the bytes   *)
(*     of head followed by `zeros` zero bytes, head not ending in a zero   *)
(*     byte, so that two Blobs are equal exactly when the byte strings     *)
(*     are.  This lets a payload of 1 MiB or 10 MiB be a value;            *)
(*   - a call that raises returns Raise(kind), one that returns v returns  *)
(*     Ok(v);                                                              *)
(*   - an unbounded Python int that can exceed 31 bits is a sequence of    *)
(*     base-256 digits, most significant first.                            *)
(***************************************************************************)
EXTENDS Integers, Sequences, FiniteSets, TLC

VARIABLES
    LZ4_SUPPORT,        \* module global, set by the import of lz4.frame
    ZSTD_SUPPORT,       \* module global, set by the import of zstandard
    available_methods,  \* self.available_methods
    compression_stats,  \* self.compression_stats
    call                \* the call in hand: its name, arguments and outcome

vars == <<LZ4_SUPPORT, ZSTD_SUPPORT, available_methods, compression_stats, call>>

(***************************************************************************)
(* Bounds of the model.                                                    *)
(***************************************************************************)
\* longest payload handed to a text codec on its own
MaxLen == 5
\* longest head of a payload handed to the engine
MaxHead == 1

(***************************************************************************)
(* Outcomes, strings, integers.                                            *)
(***************************************************************************)
Ok(v) == [ok |-> TRUE, val |-> v, err |-> "none"]

Raise(kind) == [ok |-> FALSE, val |-> <<>>, err |-> kind]

\* v bound to a name: F(v)
With(v, F(_)) == F(v)

\* the statement after a call: F on the value returned, or the exception
\* the call raised, propagated
Then(r, F(_)) == IF r.ok THEN F(r.val) ELSE r

\* the sequences over S of length at most n
SeqsUpTo(S, n) == UNION {[1..k -> S] : k \in 0..n}

Min(a, b) == IF a < b THEN a ELSE b

Max(a, b) == IF a > b THEN a ELSE b

\* s[lo:hi] of Python for 0 <= lo, hi (0-based, hi exclusive, clipped)
Slice(s, lo, hi) == SubSeq(s, Min(lo, Len(s)) + 1, Min(hi, Len(s)))

\* s.startswith(prefix)
StartsWith(s, prefix) ==
    /\ Len(s) >= Len(prefix)
    /\ SubSeq(s, 1, Len(prefix)) = prefix

\* the 1-based index of the first sep in s at or after position from, 0 if none
FindFrom(s, sep, from) ==
    LET hits == {i \in from..Len(s) : s[i] = sep}
    IN  IF hits = {} THEN 0 ELSE CHOOSE i \in hits : \A j \in hits : i <= j

\* s.split(sep, maxsplit) for a one-character sep
RECURSIVE SplitMax(_, _, _)
SplitMax(s, sep, maxsplit) ==
    LET at == FindFrom(s, sep, 1)
    IN  IF maxsplit = 0 \/ at = 0
        THEN <<s>>
        ELSE <<SubSeq(s, 1, at - 1)>>
                 \o SplitMax(SubSeq(s, at + 1, Len(s)), sep, maxsplit - 1)

\* s.split(sep): the pieces between the occurrences of sep, without recursion
\* on the length of s
Split(s, sep) ==
    LET hits  == {i \in 1..Len(s) : s[i] = sep}
        n     == Cardinality(hits)
        \* position of the k-th separator; 0 before the first, Len+1 after the last
        pos(k) == IF k = 0 THEN 0
                  ELSE IF k = n + 1 THEN Len(s) + 1
                  ELSE CHOOSE i \in hits : Cardinality({j \in hits : j < i}) = k - 1
    IN  [k \in 1..(n + 1) |-> SubSeq(s, pos(k - 1) + 1, pos(k) - 1)]

\* sep.join(parts[lo..hi]), halving the range
RECURSIVE JoinRange(_, _, _, _)
JoinRange(parts, lo, hi, sep) ==
    IF lo > hi THEN <<>>
    ELSE IF lo = hi THEN parts[lo]
    ELSE LET mid == (lo + hi) \div 2
         IN  JoinRange(parts, lo, mid, sep) \o sep \o JoinRange(parts, mid + 1, hi, sep)

\* sep.join(parts)
Join(parts, sep) == JoinRange(parts, 1, Len(parts), sep)

DIGITS == <<"0", "1", "2", "3", "4", "5", "6", "7", "8", "9">>

\* str(n) for n >= 0, as the f-strings format an int
RECURSIVE IntToStr(_)
IntToStr(n) ==
    IF n < 10 THEN <<DIGITS[n + 1]>>
    ELSE IntToStr(n \div 10) \o <<DIGITS[(n % 10) + 1]>>

IsDigit(c) == \E d \in 1..10 : DIGITS[d] = c

DigitVal(c) == (CHOOSE d \in 1..10 : DIGITS[d] = c) - 1

RECURSIVE DigitsVal(_, _)
DigitsVal(s, acc) ==
    IF s = <<>> THEN acc ELSE DigitsVal(Tail(s), acc * 10 + DigitVal(Head(s)))

\* s.strip() for the space character
RECURSIVE Strip(_)
Strip(s) ==
    IF s # <<>> /\ s[1] = " " THEN Strip(Tail(s))
    ELSE IF s # <<>> /\ s[Len(s)] = " " THEN Strip(SubSeq(s, 1, Len(s) - 1))
    ELSE s

\* int(s) after the strip of s
ParseStripped(s) ==
    LET signed == s # <<>> /\ s[1] \in {"-", "+"}
        body   == IF signed THEN Tail(s) ELSE s
    IN  IF body = <<>> \/ \E i \in 1..Len(body) : ~IsDigit(body[i])
        THEN Raise("ValueError")
        ELSE Ok(IF signed /\ s[1] = "-" THEN 0 - DigitsVal(body, 0)
                ELSE DigitsVal(body, 0))

\* int(s): spaces around an optional sign and decimal digits; anything else
\* is a ValueError
ParseInt(s) == ParseStripped(Strip(s))

\* the index (from 0) of character c in an alphabet, -1 when it is not in it
IndexIn(alphabet, c) ==
    IF \E i \in 1..Len(alphabet) : alphabet[i] = c
    THEN (CHOOSE i \in 1..Len(alphabet) : alphabet[i] = c) - 1
    ELSE -1

(***************************************************************************)
(* Base-85 codec: _encode_z85, _decode_z85.                                *)
(***************************************************************************)
Z85_ALPHABET ==
    << "0", "1", "2", "3", "4", "5", "6", "7", "8", "9", "a", "b", "c",
       "d", "e", "f", "g", "h", "i", "j", "k", "l", "m", "n", "o", "p",
       "q", "r", "s", "t", "u", "v", "w", "x", "y", "z", "A", "B", "C",
       "D", "E", "F", "G", "H", "I", "J", "K", "L", "M", "N", "O", "P",
       "Q", "R", "S", "T", "U", "V", "W", "X", "Y", "Z", ".", "-", ":",
       "+", "=", "^", "!", "/", "*", "?", "&", "<", ">", "(", ")", "[",
       "]", "{", "}", "@", "%", "$", "#" >>

\* value % 85 and value // 85 of a big-endian base-256 number, by long division
RECURSIVE DivMod85From(_, _, _, _)
DivMod85From(digits, i, rem, quot) ==
    IF i > Len(digits) THEN [q |-> quot, r |-> rem]
    ELSE LET cur == rem * 256 + digits[i]
         IN  DivMod85From(digits, i + 1, cur % 85, Append(quot, cur \div 85))

DivMod85(digits) == DivMod85From(digits, 1, 0, <<>>)

\* value * 85 + d of a big-endian base-256 number, the length kept (the number
\* never exceeds 85^5 - 1 < 256^5 when it has five digits)
RECURSIVE MulAdd85From(_, _, _)
MulAdd85From(digits, i, carry) ==
    IF i = 0 THEN <<>>
    ELSE LET cur == digits[i] * 85 + carry
         IN  Append(MulAdd85From(digits, i - 1, cur \div 256), cur % 256)

MulAdd85(digits, d) == MulAdd85From(digits, Len(digits), d)

\* the inner loop of _encode_z85: five times, alphabet[value % 85] + encoded
RECURSIVE Z85Digits(_, _, _)
Z85Digits(value, k, encoded) ==
    IF k = 0 THEN encoded
    ELSE LET dm == DivMod85(value)
         IN  Z85Digits(dm.q, k - 1, <<Z85_ALPHABET[dm.r + 1]>> \o encoded)

\* one 4-byte chunk: int.from_bytes(chunk, 'big'), then its 5 characters
Z85EncodeChunk(chunk) == Z85Digits(chunk, 5, <<>>)

\* the outer loop of _encode_z85 over range(0, len(data), 4)
RECURSIVE Z85EncodeChunks(_, _)
Z85EncodeChunks(data, i) ==
    IF i >= Len(data) THEN <<>>
    ELSE Z85EncodeChunk(Slice(data, i, i + 4)) \o Z85EncodeChunks(data, i + 4)

\* a variant of the padding below without the outer % 4
Z85PaddingNoMod(data) == 4 - (Len(data) % 4)

\* padding = (4 - len(data) % 4) % 4
Z85Padding(data) == (4 - (Len(data) % 4)) % 4

_encode_z85(data) ==
    LET padding == Z85Padding(data)
        padded  == data \o [k \in 1..padding |-> 0]
    IN  <<"Z", "8", "5", ":">> \o IntToStr(padding) \o <<":">>
            \o Z85EncodeChunks(padded, 0)

\* value = value * 85 + char_map[char] over the 5 characters of a chunk;
\* a character outside the alphabet is a KeyError
RECURSIVE Z85Value(_, _)
Z85Value(chunk, value) ==
    IF chunk = <<>> THEN Ok(value)
    ELSE IF IndexIn(Z85_ALPHABET, Head(chunk)) < 0 THEN Raise("KeyError")
    ELSE Z85Value(Tail(chunk), MulAdd85(value, IndexIn(Z85_ALPHABET, Head(chunk))))

\* value.to_bytes(4, 'big'): OverflowError when the value needs a fifth byte
ToBytes4(value) ==
    IF value[1] # 0 THEN Raise("OverflowError") ELSE Ok(Tail(value))

\* the loop of _decode_z85 over range(0, len(encoded), 5); a short last chunk
\* ends the loop
RECURSIVE Z85DecodeChunks(_, _)
Z85DecodeChunks(encoded, i) ==
    IF i >= Len(encoded) \/ Len(Slice(encoded, i, i + 5)) # 5 THEN Ok(<<>>)
    ELSE Then(Z85Value(Slice(encoded, i, i + 5), <<0, 0, 0, 0, 0>>), LAMBDA value :
         Then(ToBytes4(value), LAMBDA bytes_chunk :
         Then(Z85DecodeChunks(encoded, i + 5), LAMBDA rest :
         Ok(bytes_chunk \o rest))))

\* a variant of the trimming below that strips every trailing zero byte,
\* as decoded.rstrip(b"\x00") would
RECURSIVE Z85TrimZeros(_, _)
Z85TrimZeros(decoded, padding) ==
    IF decoded # <<>> /\ decoded[Len(decoded)] = 0
    THEN Z85TrimZeros(SubSeq(decoded, 1, Len(decoded) - 1), padding)
    ELSE decoded

\* decoded[:-padding] when padding > 0
Z85Trim(decoded, padding) ==
    IF padding > 0 THEN Slice(decoded, 0, Max(Len(decoded) - padding, 0))
    ELSE decoded

\* _decode_z85 after the prefix test, on data.split(":", 2)
Z85DecodeParts(parts) ==
    IF Len(parts) # 3 THEN Raise("ValueError")
    ELSE Then(ParseInt(parts[2]), LAMBDA padding :
         Then(Z85DecodeChunks(parts[3], 0), LAMBDA decoded :
         Ok(Z85Trim(decoded, padding))))

\* a variant of the decoder below that does not test the prefix
_decode_z85_any_prefix(data) == Z85DecodeParts(SplitMax(data, ":", 2))

_decode_z85(data) ==
    IF ~StartsWith(data, <<"Z", "8", "5", ":">>) THEN Raise("ValueError")
    ELSE Z85DecodeParts(SplitMax(data, ":", 2))

(***************************************************************************)
(* Base-91 codec: _encode_base91, _decode_base91.                          *)
(***************************************************************************)
\* the grave accent, character 86 of the alphabet, is written "grave"
B91_ALPHABET ==
    << "A", "B", "C", "D", "E", "F", "G", "H", "I", "J", "K", "L", "M",
       "N", "O", "P", "Q", "R", "S", "T", "U", "V", "W", "X", "Y", "Z",
       "a", "b", "c", "d", "e", "f", "g", "h", "i", "j", "k", "l", "m",
       "n", "o", "p", "q", "r", "s", "t", "u", "v", "w", "x", "y", "z",
       "0", "1", "2", "3", "4", "5", "6", "7", "8", "9", "!", "#", "$",
       "%", "&", "(", ")", "*", "+", ",", ".", "/", ":", ";", "<", "=",
       ">", "?", "@", "[", "]", "^", "_", "grave", "{", "|", "}", "~", "\"" >>

RECURSIVE Pow2(_)
Pow2(n) == IF n = 0 THEN 1 ELSE 2 * Pow2(n - 1)

\* a | b on non-negative integers
RECURSIVE BitOr(_, _)
BitOr(a, b) ==
    IF a = 0 THEN b
    ELSE IF b = 0 THEN a
    ELSE 2 * BitOr(a \div 2, b \div 2) + (IF a % 2 = 1 \/ b % 2 = 1 THEN 1 ELSE 0)

\* alphabet[i] of Python for i >= 0: IndexError past the end
B91Symbol(i) ==
    IF i < Len(B91_ALPHABET) THEN Ok(<<B91_ALPHABET[i + 1]>>)
    ELSE Raise("IndexError")

\* a variant of the loop below without the flush of the last bits
RECURSIVE B91EncodeFromNoFlush(_, _, _, _)
B91EncodeFromNoFlush(data, i, v, b) ==
    IF i > Len(data)
    THEN Ok(<<>>)
    ELSE With(BitOr(v, (data[i] % 256) * Pow2(b)), LAMBDA v1 :
         IF b + 8 > 13
         THEN Then(B91Symbol(v1 % 8192), LAMBDA sym :
              Then(B91EncodeFromNoFlush(data, i + 1, v1 \div 8192, b + 8 - 13),
                   LAMBDA rest :
              Ok(sym \o rest)))
         ELSE B91EncodeFromNoFlush(data, i + 1, v1, b + 8))

\* the loop of _encode_base91 from byte i (from 1) on, with accumulator v
\* holding b bits
RECURSIVE B91EncodeFrom(_, _, _, _)
B91EncodeFrom(data, i, v, b) ==
    IF i > Len(data)
    THEN IF b > 0 THEN B91Symbol(v % 8192) ELSE Ok(<<>>)
    ELSE With(BitOr(v, (data[i] % 256) * Pow2(b)), LAMBDA v1 :
         IF b + 8 > 13
         THEN Then(B91Symbol(v1 % 8192), LAMBDA sym :
              Then(B91EncodeFrom(data, i + 1, v1 \div 8192, b + 8 - 13), LAMBDA rest :
              Ok(sym \o rest)))
         ELSE B91EncodeFrom(data, i + 1, v1, b + 8))

_encode_base91(data) ==
    Then(B91EncodeFrom(data, 1, 0, 0), LAMBDA output :
    Ok(<<"B", "9", "1", ":">> \o output))

\* while b >= 8: output.append(v & 255); v >>= 8; b -= 8
RECURSIVE B91Drain(_, _, _)
B91Drain(out, v, b) ==
    IF b >= 8 THEN B91Drain(Append(out, v % 256), v \div 256, b - 8)
    ELSE [out |-> out, v |-> v, b |-> b]

\* the loop of _decode_base91 from character i on, output being the bytes
\* emitted so far; a character outside the alphabet is skipped
RECURSIVE B91DecodeFrom(_, _, _, _, _)
B91DecodeFrom(encoded, i, output, v, b) ==
    IF i > Len(encoded) THEN output
    ELSE IF IndexIn(B91_ALPHABET, encoded[i]) < 0
    THEN B91DecodeFrom(encoded, i + 1, output, v, b)
    ELSE With(B91Drain(output,
                       BitOr(v, IndexIn(B91_ALPHABET, encoded[i]) * Pow2(b)),
                       b + 13), LAMBDA d :
         B91DecodeFrom(encoded, i + 1, d.out, d.v, d.b))

_decode_base91(data) ==
    IF ~StartsWith(data, <<"B", "9", "1", ":">>) THEN Raise("ValueError")
    ELSE Ok(B91DecodeFrom(Slice(data, 4, Len(data)), 1, <<>>, 0, 0))

(***************************************************************************)
(* Standard base64: base64.b64encode, base64.b64decode.                    *)
(***************************************************************************)
B64_ALPHABET ==
    << "A", "B", "C", "D", "E", "F", "G", "H", "I", "J", "K", "L", "M",
       "N", "O", "P", "Q", "R", "S", "T", "U", "V", "W", "X", "Y", "Z",
       "a", "b", "c", "d", "e", "f", "g", "h", "i", "j", "k", "l", "m",
       "n", "o", "p", "q", "r", "s", "t", "u", "v", "w", "x", "y", "z",
       "0", "1", "2", "3", "4", "5", "6", "7", "8", "9", "+", "/" >>

\* the four characters of one group of 1, 2 or 3 bytes
B64Group(g) ==
    LET b1 == g[1]
        b2 == IF Len(g) >= 2 THEN g[2] ELSE 0
        b3 == IF Len(g) >= 3 THEN g[3] ELSE 0
        c1 == B64_ALPHABET[(b1 \div 4) + 1]
        c2 == B64_ALPHABET[((b1 % 4) * 16 + (b2 \div 16)) + 1]
        c3 == B64_ALPHABET[((b2 % 16) * 4 + (b3 \div 64)) + 1]
        c4 == B64_ALPHABET[(b3 % 64) + 1]
    IN  IF Len(g) = 1 THEN <<c1, c2, "=", "=">>
        ELSE IF Len(g) = 2 THEN <<c1, c2, c3, "=">>
        ELSE <<c1, c2, c3, c4>>

\* base64.b64encode(data).decode('ascii')
RECURSIVE b64encode(_)
b64encode(data) ==
    IF data = <<>> THEN <<>>
    ELSE B64Group(Slice(data, 0, 3)) \o b64encode(Slice(data, 3, Len(data)))

\* the bytes of one group of four characters, "=" only at its end
B64Quad(q) ==
    LET n  == IF q[3] = "=" THEN 1 ELSE IF q[4] = "=" THEN 2 ELSE 3
        i1 == IndexIn(B64_ALPHABET, q[1])
        i2 == IndexIn(B64_ALPHABET, q[2])
        i3 == IF n >= 2 THEN IndexIn(B64_ALPHABET, q[3]) ELSE 0
        i4 == IF n >= 3 THEN IndexIn(B64_ALPHABET, q[4]) ELSE 0
        all == << i1 * 4 + (i2 \div 16),
                  (i2 % 16) * 16 + (i3 \div 4),
                  (i3 % 4) * 64 + i4 >>
    IN  IF q[1] = "=" \/ q[2] = "=" \/ (q[3] = "=" /\ q[4] # "=")
        THEN Raise("binascii.Error")
        ELSE Ok(SubSeq(all, 1, n))

RECURSIVE B64Quads(_)
B64Quads(s) ==
    IF s = <<>> THEN Ok(<<>>)
    ELSE Then(B64Quad(SubSeq(s, 1, 4)), LAMBDA bytes :
         IF Len(bytes) < 3 THEN Ok(bytes)
         ELSE Then(B64Quads(SubSeq(s, 5, Len(s))), LAMBDA rest : Ok(bytes \o rest)))

\* base64.b64decode(s): characters outside the alphabet are discarded, the
\* rest must be whole groups of four ("Incorrect padding" otherwise)
b64decode(s) ==
    With(SelectSeq(s, LAMBDA c : c = "=" \/ IndexIn(B64_ALPHABET, c) >= 0),
         LAMBDA kept :
         IF Len(kept) % 4 # 0 THEN Raise("binascii.Error") ELSE B64Quads(kept))

(***************************************************************************)
(* Payloads.                                                               *)
(***************************************************************************)
\* the byte string: head, then `zeros` zero bytes
RECURSIVE Blob(_, _)
Blob(head, zeros) ==
    IF head # <<>> /\ head[Len(head)] = 0
    THEN Blob(SubSeq(head, 1, Len(head) - 1), zeros + 1)
    ELSE [head |-> head, zeros |-> zeros]

\* bytes(seq) as a payload
ToBlob(seq) == Blob(seq, 0)

\* len(data)
BLen(data) == Len(data.head) + data.zeros

\* the payload as a plain byte sequence
Bytes(data) == data.head \o [k \in 1..data.zeros |-> 0]

\* data[lo:hi] for 0 <= lo <= hi
BSlice(data, lo, hi) ==
    LET top == Min(hi, BLen(data))
        bot == Max(lo, Len(data.head))
    IN  Blob(Slice(data.head, lo, hi), Max(top - bot, 0))

\* a + b
BConcat(a, b) ==
    IF b.head = <<>> THEN [head |-> a.head, zeros |-> a.zeros + b.zeros]
    ELSE [head |-> Bytes(a) \o b.head, zeros |-> b.zeros]

\* b''.join(chunks[lo..hi]), halving the range
RECURSIVE BJoinRange(_, _, _)
BJoinRange(chunks, lo, hi) ==
    IF lo > hi THEN ToBlob(<<>>)
    ELSE IF lo = hi THEN chunks[lo]
    ELSE LET mid == (lo + hi) \div 2
         IN  BConcat(BJoinRange(chunks, lo, mid), BJoinRange(chunks, mid + 1, hi))

\* b''.join(chunks)
BJoin(chunks) == BJoinRange(chunks, 1, Len(chunks))

(***************************************************************************)
(* The backend compressors (gzip, zlib, brotli, lz4.frame, zstandard) are  *)
(* libraries; each is modelled as a lossless container: the backend's      *)
(* magic bytes, the payload without its trailing zero run, and the         *)
(* payload's length in four little-endian bytes (as gzip's ISIZE).  A      *)
(* decompressor raises on any other container.                             *)
(***************************************************************************)
LE32(n) == <<n % 256, (n \div 256) % 256, (n \div 65536) % 256, n \div 16777216>>

FromLE32(b) == b[1] + b[2] * 256 + b[3] * 65536 + b[4] * 16777216

Magic(backend) ==
    CASE backend = "gzip"   -> <<31, 139, 8, 0>>
      [] backend = "zlib"   -> <<120, 156>>
      [] backend = "brotli" -> <<27>>
      [] backend = "lz4"    -> <<4, 34, 77, 24>>
      [] backend = "zstd"   -> <<40, 181, 47, 253>>

\* the levels a backend accepts: gzip and zlib -1..9, brotli quality 0..11,
\* zstandard up to 22
LevelOk(backend, level) ==
    CASE backend = "gzip"   -> level >= -1 /\ level <= 9
      [] backend = "zlib"   -> level >= -1 /\ level <= 9
      [] backend = "brotli" -> level >= 0 /\ level <= 11
      [] backend = "lz4"    -> TRUE
      [] backend = "zstd"   -> level <= 22

BackendCompress(backend, data, level) ==
    IF ~LevelOk(backend, level) THEN Raise("BackendError")
    ELSE Ok(Magic(backend) \o data.head \o LE32(BLen(data)))

BackendDecompress(backend, compressed) ==
    LET m == Magic(backend)
    IN  IF backend = "gzip" /\ compressed = <<>>
        THEN Ok(Blob(<<>>, 0))
        ELSE IF ~(StartsWith(compressed, m) /\ Len(compressed) >= Len(m) + 4)
        THEN Raise("BackendError")
        ELSE LET body == SubSeq(compressed, Len(m) + 1, Len(compressed) - 4)
                 size == FromLE32(SubSeq(compressed, Len(compressed) - 3,
                                         Len(compressed)))
             IN  IF size < Len(body) THEN Raise("BackendError")
                 ELSE Ok(Blob(body, size - Len(body)))

(***************************************************************************)
(* Backend pipelines: compress, then base64; base64-decode, then           *)
(* decompress.                                                             *)
(***************************************************************************)
\* backend.compress(data, level), then base64.b64encode(...).decode('ascii')
CompressThenBase64(backend, data, level) ==
    Then(BackendCompress(backend, data, level), LAMBDA compressed :
    Ok(b64encode(compressed)))

\* base64.b64decode(data), then backend.decompress(...)
Base64ThenDecompress(backend, data) ==
    Then(b64decode(data), LAMBDA compressed :
    BackendDecompress(backend, compressed))

_gzip_then_base64(data, level) == CompressThenBase64("gzip", data, level)

_base64_then_gunzip(data) == Base64ThenDecompress("gzip", data)

_deflate_then_base64(data, level) == CompressThenBase64("zlib", data, level)

_base64_then_inflate(data) == Base64ThenDecompress("zlib", data)

_brotli_then_base64(data, level) ==
    IF ~available_methods["brotli_base64"] THEN _gzip_then_base64(data, level)
    ELSE CompressThenBase64("brotli", data, level)

_base64_then_brotli_decompress(data) == Base64ThenDecompress("brotli", data)

_lz4_then_base64(data) ==
    IF ~LZ4_SUPPORT THEN _gzip_then_base64(data, 1)
    ELSE CompressThenBase64("lz4", data, 0)

\* the name lz4 is bound only when the import succeeded
_base64_then_lz4_decompress(data) ==
    Then(b64decode(data), LAMBDA compressed :
    IF ~LZ4_SUPPORT THEN Raise("NameError")
    ELSE BackendDecompress("lz4", compressed))

_zstd_then_base64(data, level) ==
    IF ~ZSTD_SUPPORT THEN _brotli_then_base64(data, level)
    ELSE CompressThenBase64("zstd", data, level)

\* the name zstd is bound only when the import succeeded
_base64_then_zstd_decompress(data) ==
    Then(b64decode(data), LAMBDA compressed :
    IF ~ZSTD_SUPPORT THEN Raise("NameError")
    ELSE BackendDecompress("zstd", compressed))

(***************************************************************************)
(* Streaming chunker: _streaming_gzip_base64, _streaming_gunzip_base64.    *)
(***************************************************************************)
KiB == 1024

\* the default chunk_size
DEFAULT_CHUNK_SIZE == 64 * KiB

\* a variant of the count below that leaves the shorter last chunk out
RangeLenFloor(n, step) == n \div step

\* len(range(0, n, step)) for step >= 1
RangeLen(n, step) == (n + step - 1) \div step

\* the encoded chunks, one per i in range(0, len(data), chunk_size)
StreamChunks(data, chunk_size) ==
    [k \in 1..RangeLen(BLen(data), chunk_size) |->
        _gzip_then_base64(BSlice(data, (k - 1) * chunk_size, k * chunk_size), 6).val]

_streaming_gzip_base64(data, chunk_size) ==
    With(StreamChunks(data, chunk_size), LAMBDA result_chunks :
    <<"S", "T", "R", "E", "A", "M", ":">> \o IntToStr(Len(result_chunks))
        \o <<":">> \o Join(result_chunks, <<"|">>))

\* the exception of the first chunk that failed to decode, or the chunks
FirstFailure(decoded) ==
    LET failed == {i \in 1..Len(decoded) : ~decoded[i].ok}
    IN  IF failed = {} THEN Ok([i \in 1..Len(decoded) |-> decoded[i].val])
        ELSE decoded[CHOOSE i \in failed : \A j \in failed : i <= j]

\* the loop of _streaming_gunzip_base64: every chunk decoded, or the
\* exception of the first chunk that fails to decode
StreamDecodeChunks(encoded_chunks) ==
    FirstFailure([i \in 1..Len(encoded_chunks) |->
                     _base64_then_gunzip(encoded_chunks[i])])

\* a variant of the decoding below without the test of the count
StreamDecodeUncounted(chunk_count, encoded_chunks) ==
    Then(StreamDecodeChunks(encoded_chunks), LAMBDA result_chunks :
    Ok(BJoin(result_chunks)))

\* _streaming_gunzip_base64 from the chunk count on
StreamDecodeCounted(chunk_count, encoded_chunks) ==
    IF Len(encoded_chunks) # chunk_count THEN Raise("ValueError")
    ELSE Then(StreamDecodeChunks(encoded_chunks), LAMBDA result_chunks :
         Ok(BJoin(result_chunks)))

\* _streaming_gunzip_base64 after the prefix test, on data.split(":", 2)
StreamDecodeParts(parts) ==
    IF Len(parts) # 3 THEN Raise("ValueError")
    ELSE Then(ParseInt(parts[2]), LAMBDA chunk_count :
         StreamDecodeCounted(chunk_count, Split(parts[3], "|")))

_streaming_gunzip_base64(data) ==
    IF ~StartsWith(data, <<"S", "T", "R", "E", "A", "M", ":">>)
    THEN Raise("ValueError")
    ELSE StreamDecodeParts(SplitMax(data, ":", 2))

(***************************************************************************)
(* Method selector: determine_optimal_method.                              *)
(***************************************************************************)
\* a variant of the selector below whose first rule reads size >= 10 MiB
determine_optimal_method_ge(data, file_type) ==
    LET size == BLen(data)
    IN  IF size >= 10 * 1024 * 1024 THEN "streaming_gzip"
        ELSE IF file_type \in {"image", "video", "audio"} /\ size > 100 * 1024
        THEN "z85"
        ELSE IF file_type \in {"pdf", "text", "json", "xml"}
        THEN IF ZSTD_SUPPORT /\ size > 1024 * 1024 THEN "zstd_base64"
             ELSE IF available_methods["brotli_base64"] THEN "brotli_base64"
             ELSE "gzip_base64"
        ELSE IF size < 100 * 1024
        THEN IF LZ4_SUPPORT THEN "lz4_base64" ELSE "z85"
        ELSE IF size < 1024 * 1024 THEN "gzip_base64"
        ELSE "hybrid"

\* a variant of the selector below that does not look at the capabilities
determine_optimal_method_blind(data, file_type) ==
    LET size == BLen(data)
    IN  IF size > 10 * 1024 * 1024 THEN "streaming_gzip"
        ELSE IF file_type \in {"image", "video", "audio"} /\ size > 100 * 1024
        THEN "z85"
        ELSE IF file_type \in {"pdf", "text", "json", "xml"}
        THEN IF size > 1024 * 1024 THEN "zstd_base64" ELSE "brotli_base64"
        ELSE IF size < 100 * 1024 THEN "lz4_base64"
        ELSE IF size < 1024 * 1024 THEN "gzip_base64"
        ELSE "hybrid"

determine_optimal_method(data, file_type) ==
    LET size == BLen(data)
    IN  IF size > 10 * 1024 * 1024 THEN "streaming_gzip"
        ELSE IF file_type \in {"image", "video", "audio"} /\ size > 100 * 1024
        THEN "z85"
        ELSE IF file_type \in {"pdf", "text", "json", "xml"}
        THEN IF ZSTD_SUPPORT /\ size > 1024 * 1024 THEN "zstd_base64"
             ELSE IF available_methods["brotli_base64"] THEN "brotli_base64"
             ELSE "gzip_base64"
        ELSE IF size < 100 * 1024
        THEN IF LZ4_SUPPORT THEN "lz4_base64" ELSE "z85"
        ELSE IF size < 1024 * 1024 THEN "gzip_base64"
        ELSE "hybrid"

(***************************************************************************)
(* Hybrid benchmarker: _hybrid_compress.                                   *)
(***************************************************************************)
\* the characters of a candidate's name
MethodChars(method) ==
    CASE method = "gzip_base64" -> <<"g", "z", "i", "p", "_", "b", "a", "s", "e", "6", "4">>
      [] method = "deflate_base64" -> <<"d", "e", "f", "l", "a", "t", "e", "_", "b", "a", "s", "e", "6", "4">>
      [] method = "brotli_base64" -> <<"b", "r", "o", "t", "l", "i", "_", "b", "a", "s", "e", "6", "4">>
      [] method = "lz4_base64" -> <<"l", "z", "4", "_", "b", "a", "s", "e", "6", "4">>
      [] method = "z85" -> <<"z", "8", "5">>

\* a variant of the list below that tries lz4_base64 whether or not the
\* lz4 import succeeded
methods_to_try_any_lz4(data) ==
    <<"gzip_base64", "deflate_base64">>
        \o (IF available_methods["brotli_base64"] THEN <<"brotli_base64">> ELSE <<>>)
        \o (IF BLen(data) < 1024 * 1024 THEN <<"lz4_base64">> ELSE <<>>)
        \o (IF BLen(data) < 100 * 1024 THEN <<"z85">> ELSE <<>>)

\* methods_to_try, in the order the code appends them
methods_to_try(data) ==
    <<"gzip_base64", "deflate_base64">>
        \o (IF available_methods["brotli_base64"] THEN <<"brotli_base64">> ELSE <<>>)
        \o (IF LZ4_SUPPORT /\ BLen(data) < 1024 * 1024 THEN <<"lz4_base64">> ELSE <<>>)
        \o (IF BLen(data) < 100 * 1024 THEN <<"z85">> ELSE <<>>)

\* the encoder the loop runs for a candidate
HybridEncode(method, data) ==
    CASE method = "gzip_base64"    -> _gzip_then_base64(data, 6)
      [] method = "deflate_base64" -> _deflate_then_base64(data, 6)
      [] method = "brotli_base64"  -> _brotli_then_base64(data, 6)
      [] method = "lz4_base64"     -> _lz4_then_base64(data)
      [] method = "z85"            -> Ok(_encode_z85(Bytes(data)))

\* size * 0.8 + processing_time * 1000 * 0.2, times 5; time_ms is the
\* candidate's measured time in milliseconds
Cost(size, time_ms) == 4 * size + time_ms

\* score = 1 / (size * 0.8 + processing_time * 1000 * 0.2) as a fraction
Score(size, time_ms) == [num |-> 5, den |-> Cost(size, time_ms)]

\* a > b for two scores with positive denominators
ScoreGreater(a, b) == a.num * b.den > b.num * a.den

\* candidates.append((method, result, size, score)) for a candidate that
\* returned; one that raised, or whose score divides by zero, is dropped
Candidate(method, result, time_ms) ==
    IF result.ok /\ Cost(Len(result.val), time_ms) # 0
    THEN <<[method |-> method, result |-> result.val, size |-> Len(result.val),
            score |-> Score(Len(result.val), time_ms)]>>
    ELSE <<>>

\* one pass of the try block of the loop: what the candidate's encoder
\* returned, or the exception that left it; run says whether the backend
\* raised in this run
HybridTry(method, data, run) ==
    IF run.raised THEN Raise("MemoryError") ELSE HybridEncode(method, data)

\* the candidates list after the loop over methods_to_try; times gives for
\* each candidate the time measured in this run and whether its encoder
\* raised
RECURSIVE HybridCandidates(_, _, _)
HybridCandidates(methods, data, times) ==
    IF methods = <<>> THEN <<>>
    ELSE Candidate(Head(methods), HybridTry(Head(methods), data, times[Head(methods)]),
                   times[Head(methods)].ms)
             \o HybridCandidates(Tail(methods), data, times)

\* a variant of the maximum below that keeps the last candidate of maximal
\* score
RECURSIVE MaxByScoreLast(_, _)
MaxByScoreLast(candidates, best) ==
    IF candidates = <<>> THEN best
    ELSE MaxByScoreLast(Tail(candidates),
                        IF ScoreGreater(best.score, Head(candidates).score)
                        THEN best ELSE Head(candidates))

\* max(candidates, key=lambda x: x[3]): the first candidate of maximal score
RECURSIVE MaxByScore(_, _)
MaxByScore(candidates, best) ==
    IF candidates = <<>> THEN best
    ELSE MaxByScore(Tail(candidates),
                    IF ScoreGreater(Head(candidates).score, best.score)
                    THEN Head(candidates) ELSE best)

\* a variant of the framing below that always writes the name of the first
\* candidate
HybridFrameFirst(best) ==
    <<"H", "Y", "B", "R", "I", "D", ":">> \o MethodChars("gzip_base64")
        \o <<":">> \o best.result

\* the string returned for the selected candidate
HybridFrame(best) ==
    <<"H", "Y", "B", "R", "I", "D", ":">> \o MethodChars(best.method)
        \o <<":">> \o best.result

_hybrid_compress(data, times) ==
    With(HybridCandidates(methods_to_try(data), data, times), LAMBDA candidates :
    IF candidates = <<>> THEN b64encode(Bytes(data))
    ELSE HybridFrame(MaxByScore(Tail(candidates), Head(candidates))))

(***************************************************************************)
(* Engine: construction, compress_data, decompress_data, statistics.       *)
(***************************************************************************)
\* 'brotli' in globals(): the module imports brotli unconditionally
_detect_available_methods ==
    [gzip_base64 |-> TRUE, deflate_base64 |-> TRUE, brotli_base64 |-> TRUE,
     lz4_base64 |-> LZ4_SUPPORT, zstd_base64 |-> ZSTD_SUPPORT, z85 |-> TRUE,
     base91 |-> TRUE, streaming_gzip |-> TRUE, hybrid |-> TRUE]

\* method.endswith('_base64') for the method names compress_data records
EndsWithBase64(method) ==
    method \in {"gzip_base64", "deflate_base64", "brotli_base64", "lz4_base64",
                "zstd_base64"}

\* the encoder compress_data runs for a method name it knows
Encode(method, data, compression_level, times) ==
    CASE method = "gzip_base64" -> _gzip_then_base64(data, compression_level)
      [] method = "deflate_base64" -> _deflate_then_base64(data, compression_level)
      [] method = "brotli_base64" -> _brotli_then_base64(data, compression_level)
      [] method = "lz4_base64" -> _lz4_then_base64(data)
      [] method = "zstd_base64" -> _zstd_then_base64(data, compression_level)
      [] method = "z85" -> Ok(_encode_z85(Bytes(data)))
      [] method = "base91" -> _encode_base91(Bytes(data))
      [] method = "streaming_gzip" ->
             Ok(_streaming_gzip_base64(data, DEFAULT_CHUNK_SIZE))
      [] method = "hybrid" -> Ok(_hybrid_compress(data, times))

\* the string an encoder returned, with the method name that goes with it
Named(result, method) ==
    Then(result, LAMBDA compressed :
    Ok([compressed |-> compressed, method |-> method]))

\* the try block of compress_data: the encoded string and the method name
\* after it, or the exception the chosen codec raised
RunCodec(method, data, compression_level, times) ==
    IF method \in {"gzip_base64", "deflate_base64", "brotli_base64", "lz4_base64",
                   "zstd_base64", "z85", "base91", "streaming_gzip", "hybrid"}
    THEN Named(Encode(method, data, compression_level, times), method)
    ELSE Named(_gzip_then_base64(data, compression_level), "gzip_base64")

\* except Exception: the emergency fallback to base64 alone
OrFallback(tried, data) ==
    IF tried.ok THEN tried.val
    ELSE [compressed |-> b64encode(Bytes(data)), method |-> "base64_only"]

\* a / b of Python as a fraction; b = 0 raises ZeroDivisionError
Div(a, b) == IF b = 0 THEN Raise("ZeroDivisionError") ELSE Ok([num |-> a, den |-> b])

\* 1 - a / b
OneMinus(a, b) == Then(Div(a, b), LAMBDA q : Ok([num |-> q.den - q.num, den |-> q.den]))

\* int(original_size * 1.33)
Base64Size(original_size) == (original_size * 133) \div 100

\* compress_data after the try block: the metrics and the metadata
Metadata(method, original_size, compressed_size, compression_level, elapsed_ms) ==
    Then(OneMinus(compressed_size, original_size), LAMBDA compression_ratio :
    Then(Div(compressed_size, original_size), LAMBDA efficiency :
    Then(OneMinus(compressed_size, Base64Size(original_size)),
         LAMBDA improvement_vs_base64 :
    Ok([method |-> method,
        original_size |-> original_size,
        compressed_size |-> compressed_size,
        compression_ratio |-> compression_ratio,
        efficiency |-> efficiency,
        space_saved |-> original_size - compressed_size,
        processing_time_ms |-> elapsed_ms,
        base64_improvement |-> improvement_vs_base64,
        compression_level |->
            IF EndsWithBase64(method) THEN <<compression_level>> ELSE <<>>]))))

\* the pair compress_data returns
Returned(compressed, metadata) ==
    Then(metadata, LAMBDA m : Ok([compressed |-> compressed, metadata |-> m]))

\* compress_data up to its return value; elapsed_ms is the measured
\* processing time, times the times measured for the hybrid candidates
compress_data(data, requested, compression_level, elapsed_ms, times) ==
    With(IF requested = "auto" THEN determine_optimal_method(data, "unknown")
         ELSE requested, LAMBDA method :
    With(OrFallback(RunCodec(method, data, compression_level, times), data),
         LAMBDA done :
    Returned(done.compressed,
             Metadata(done.method, BLen(data), Len(done.compressed),
                      compression_level, elapsed_ms))))

\* a variant of the update below that sets the count of the method to 1
\* instead of adding 1 to it
_update_stats_set(stats, method, original_size, compressed_size, processing_time) ==
    [files_processed |-> stats.files_processed + 1,
     total_original_size |-> stats.total_original_size + original_size,
     total_compressed_size |-> stats.total_compressed_size + compressed_size,
     total_processing_time |-> stats.total_processing_time + processing_time,
     method_usage |->
        [m \in DOMAIN stats.method_usage \cup {method} |->
            IF m = method THEN 1 ELSE stats.method_usage[m]]]

_update_stats(stats, method, original_size, compressed_size, processing_time) ==
    [files_processed |-> stats.files_processed + 1,
     total_original_size |-> stats.total_original_size + original_size,
     total_compressed_size |-> stats.total_compressed_size + compressed_size,
     total_processing_time |-> stats.total_processing_time + processing_time,
     method_usage |->
        [m \in DOMAIN stats.method_usage \cup {method} |->
            (IF m \in DOMAIN stats.method_usage THEN stats.method_usage[m] ELSE 0)
                + (IF m = method THEN 1 ELSE 0)]]

\* bytes returned by a text codec, as a payload
AsPayload(r) == IF r.ok THEN Ok(ToBlob(r.val)) ELSE r

\* a variant of decompress_data below that decodes a string of an unknown
\* method as gzip_base64, the way compress_data encodes one
decompress_data_lenient(compressed_data, metadata) ==
    LET method == metadata.method
    IN  CASE method = "gzip_base64" -> _base64_then_gunzip(compressed_data)
          [] method = "deflate_base64" -> _base64_then_inflate(compressed_data)
          [] method = "brotli_base64" -> _base64_then_brotli_decompress(compressed_data)
          [] method = "lz4_base64" -> _base64_then_lz4_decompress(compressed_data)
          [] method = "zstd_base64" -> _base64_then_zstd_decompress(compressed_data)
          [] method = "z85" -> AsPayload(_decode_z85(compressed_data))
          [] method = "base91" -> AsPayload(_decode_base91(compressed_data))
          [] method = "streaming_gzip" -> _streaming_gunzip_base64(compressed_data)
          [] method = "base64_only" -> AsPayload(b64decode(compressed_data))
          [] OTHER -> _base64_then_gunzip(compressed_data)

decompress_data(compressed_data, metadata) ==
    LET method == metadata.method
    IN  CASE method = "gzip_base64" -> _base64_then_gunzip(compressed_data)
          [] method = "deflate_base64" -> _base64_then_inflate(compressed_data)
          [] method = "brotli_base64" -> _base64_then_brotli_decompress(compressed_data)
          [] method = "lz4_base64" -> _base64_then_lz4_decompress(compressed_data)
          [] method = "zstd_base64" -> _base64_then_zstd_decompress(compressed_data)
          [] method = "z85" -> AsPayload(_decode_z85(compressed_data))
          [] method = "base91" -> AsPayload(_decode_base91(compressed_data))
          [] method = "streaming_gzip" -> _streaming_gunzip_base64(compressed_data)
          [] method = "base64_only" -> AsPayload(b64decode(compressed_data))
          [] OTHER -> Raise("ValueError")

(***************************************************************************)
(* The engine as a state machine.                                          *)
(***************************************************************************)
\* most compress_data calls that return on one engine
MaxCalls == 1

\* byte values of the payloads
PayloadBytes == {0, 200}

\* the codec names compress_data dispatches on
Methods ==
    {"gzip_base64", "deflate_base64", "brotli_base64", "lz4_base64", "zstd_base64",
     "z85", "base91", "streaming_gzip", "hybrid"}

\* what a caller may pass as method
RequestedMethods == Methods \cup {"auto", "no_such_method"}

\* measured processing times of a call, in milliseconds
ElapsedMs == {0, 3}

HybridNames == {"gzip_base64", "deflate_base64", "brotli_base64", "lz4_base64", "z85"}

\* a candidate measured slow takes this many milliseconds
SlowMs == 100

\* a run of the candidates in which every encoder returns at once
NoSlow == [m \in HybridNames |-> [ms |-> 0, raised |-> FALSE]]

\* a run of the candidates in which every encoder raises
AllRaise == [m \in HybridNames |-> [ms |-> 0, raised |-> TRUE]]

\* the runs of the candidates inside a compress_data call: none slow, z85
\* slow, or every encoder raising
CallTimes == {NoSlow, [NoSlow EXCEPT !["z85"].ms = SlowMs], AllRaise}

\* payloads small enough for every codec
SmallPayloads == {ToBlob(s) : s \in SeqsUpTo(PayloadBytes, MaxHead)}

\* payloads of the size classes the selector gives to gzip_base64 and to
\* hybrid: 100 KiB and 1 MiB of bytes of value zero
LargePayloads ==
    {Blob(<<>>, 100 * 1024), Blob(<<>>, 1024 * 1024)}

\* the payloads of the calls with a compression level no backend accepts
BadLevelPayloads == {ToBlob(<<>>), ToBlob(<<200>>)}

\* the calls of compress_data the model makes: every small payload with
\* every method at the default level, two payloads with every method at a
\* level no backend accepts, and the large payloads in auto mode
Requests ==
    {[data |-> d, method |-> m, level |-> 6] :
        d \in SmallPayloads, m \in RequestedMethods}
    \cup
    {[data |-> d, method |-> m, level |-> -2] :
        d \in BadLevelPayloads, m \in RequestedMethods}
    \cup
    {[data |-> d, method |-> "auto", level |-> 6] : d \in LargePayloads}

\* whether the call runs the hybrid benchmarker
RunsHybrid(req) ==
    \/ req.method = "hybrid"
    \/ req.method = "auto" /\ determine_optimal_method(req.data, "unknown") = "hybrid"

EmptyStats ==
    [files_processed |-> 0, total_original_size |-> 0, total_compressed_size |-> 0,
     total_processing_time |-> 0, method_usage |-> <<>>]

\* the module's imports and AdvancedCompressionEngine.__init__
EngineInit ==
    /\ LZ4_SUPPORT \in BOOLEAN
    /\ ZSTD_SUPPORT \in BOOLEAN
    /\ available_methods = _detect_available_methods
    /\ compression_stats = EmptyStats

Init ==
    /\ EngineInit
    /\ call = [op |-> "__init__"]

\* the end of a compress_data call: _update_stats when it returns
CompressDataEnds(req, elapsed_ms, times, out) ==
    /\ call' = [op |-> "compress_data", data |-> req.data, method |-> req.method,
                level |-> req.level, times |-> times, out |-> out]
    /\ compression_stats' =
           IF out.ok
           THEN _update_stats(compression_stats, out.val.metadata.method,
                              out.val.metadata.original_size,
                              out.val.metadata.compressed_size, elapsed_ms)
           ELSE compression_stats

\* one call of compress_data, its update of the statistics included; the
\* runs in which every candidate raises are those of the calls that ask
\* for hybrid by name
CompressData ==
    /\ compression_stats.files_processed < MaxCalls
    /\ \E req \in Requests, elapsed_ms \in ElapsedMs, times \in CallTimes :
        /\ RunsHybrid(req) \/ times = NoSlow
        /\ times = AllRaise => req.method = "hybrid"
        /\ CompressDataEnds(req, elapsed_ms, times,
                            compress_data(req.data, req.method, req.level,
                                          elapsed_ms, times))
    /\ UNCHANGED <<LZ4_SUPPORT, ZSTD_SUPPORT, available_methods>>

\* decompress_data on the string and metadata the last compress_data returned
DecompressData ==
    /\ call.op = "compress_data"
    /\ call.out.ok
    /\ call' = [op |-> "decompress_data", data |-> call.data,
                method |-> call.method, level |-> call.level,
                times |-> call.times,
                compressed |-> call.out.val.compressed,
                metadata |-> call.out.val.metadata,
                out |-> decompress_data(call.out.val.compressed,
                                        call.out.val.metadata)]
    /\ UNCHANGED <<LZ4_SUPPORT, ZSTD_SUPPORT, available_methods, compression_stats>>

Next == CompressData \/ DecompressData

Spec == Init /\ [][Next]_vars


(***************************************************************************)
(* The codecs on their own: each specification draws a payload and applies *)
(* the encoder, then the decoder to what the encoder returned.             *)
(***************************************************************************)
\* byte values of the payloads handed to a codec on its own
CodecBytes == {0, 65, 255}

CodecPayloads == SeqsUpTo(CodecBytes, MaxLen)

Unchanged == UNCHANGED <<LZ4_SUPPORT, ZSTD_SUPPORT, available_methods, compression_stats>>

InitCodec ==
    /\ EngineInit
    /\ call \in {[op |-> "payload", data |-> p] : p \in CodecPayloads}

\* _encode_z85(data)
EncodeZ85 ==
    /\ call.op = "payload"
    /\ call' = [op |-> "_encode_z85", data |-> call.data,
                out |-> _encode_z85(call.data)]
    /\ Unchanged

\* _decode_z85 on the string _encode_z85 returned
DecodeZ85 ==
    /\ call.op = "_encode_z85"
    /\ call' = [op |-> "_decode_z85", data |-> call.data, encoded |-> call.out,
                out |-> _decode_z85(call.out)]
    /\ Unchanged

NextZ85 == EncodeZ85 \/ DecodeZ85

SpecZ85 == InitCodec /\ [][NextZ85]_vars

\* _encode_base91(data)
EncodeBase91 ==
    /\ call.op = "payload"
    /\ call' = [op |-> "_encode_base91", data |-> call.data,
                out |-> _encode_base91(call.data)]
    /\ Unchanged

\* _decode_base91 on the string _encode_base91 returned
DecodeBase91 ==
    /\ call.op = "_encode_base91"
    /\ call.out.ok
    /\ call' = [op |-> "_decode_base91", data |-> call.data,
                encoded |-> call.out.val,
                out |-> _decode_base91(call.out.val)]
    /\ Unchanged

NextB91 == EncodeBase91 \/ DecodeBase91

SpecB91 == InitCodec /\ [][NextB91]_vars

\* largest chunk size tried on the short payloads
MaxChunk == 3

\* 5 MiB of bytes of value zero
FiveMiB == Blob(<<>>, 5 * 1024 * 1024)

\* the short payloads with every chunk size up to MaxChunk, and 5 MiB with
\* the chunk size compress_data passes
StreamInputs ==
    {[op |-> "payload", data |-> ToBlob(p), chunk_size |-> c] :
        p \in CodecPayloads, c \in 1..MaxChunk}
    \cup {[op |-> "payload", data |-> FiveMiB, chunk_size |-> DEFAULT_CHUNK_SIZE]}

InitStream ==
    /\ EngineInit
    /\ call \in StreamInputs

\* _streaming_gzip_base64(data, chunk_size)
StreamingGzipBase64 ==
    /\ call.op = "payload"
    /\ call' = [op |-> "_streaming_gzip_base64", data |-> call.data,
                chunk_size |-> call.chunk_size,
                out |-> _streaming_gzip_base64(call.data, call.chunk_size)]
    /\ Unchanged

\* _streaming_gunzip_base64 on the string _streaming_gzip_base64 returned
StreamingGunzipBase64 ==
    /\ call.op = "_streaming_gzip_base64"
    /\ call' = [op |-> "_streaming_gunzip_base64", data |-> call.data,
                chunk_size |-> call.chunk_size, encoded |-> call.out,
                out |-> _streaming_gunzip_base64(call.out)]
    /\ Unchanged

NextStream == StreamingGzipBase64 \/ StreamingGunzipBase64

SpecStream == InitStream /\ [][NextStream]_vars

(***************************************************************************)
(* The method selector on its own.                                         *)
(***************************************************************************)
\* payload sizes at and next to the selector's thresholds
SelectorSizes ==
    {0, 1,
     100 * 1024 - 1, 100 * 1024, 100 * 1024 + 1,
     1024 * 1024 - 1, 1024 * 1024, 1024 * 1024 + 1,
     10 * 1024 * 1024 - 1, 10 * 1024 * 1024, 10 * 1024 * 1024 + 1}

\* the hints the selector tests for, its default, and two it does not name
FileTypes ==
    {"image", "video", "audio", "pdf", "text", "json", "xml", "unknown",
     "spreadsheet", "other"}

InitSelect ==
    /\ EngineInit
    /\ call \in {[op |-> "payload", data |-> Blob(<<>>, n), file_type |-> t] :
                    n \in SelectorSizes, t \in FileTypes}

\* determine_optimal_method(data, file_type)
DetermineOptimalMethod ==
    /\ call.op = "payload"
    /\ call' = [op |-> "determine_optimal_method", data |-> call.data,
                file_type |-> call.file_type,
                out |-> determine_optimal_method(call.data, call.file_type)]
    /\ Unchanged

NextSelect == DetermineOptimalMethod

SpecSelect == InitSelect /\ [][NextSelect]_vars

(***************************************************************************)
(* MetaDocBuilderAdvanced.process_file_with_compression: the builder reads *)
(* the file, detects its type and hands the bytes to the engine.           *)
(***************************************************************************)
\* file sizes: one byte, and sizes in and at the end of the selector's
\* classes from 100 KiB up
FileSizes ==
    {1, 100 * 1024 + 1, 1024 * 1024, 10 * 1024 * 1024}

\* self.compression_method of the builder
BuilderMethods == {"auto", "gzip_base64", "streaming_gzip"}

\* the files handed to the builder: their bytes, the type _detect_file_type
\* gives them, and the builder's compression_method
FileInputs ==
    {[op |-> "file", data |-> Blob(<<>>, n), file_type |-> t,
      compression_method |-> m] :
        n \in FileSizes, t \in FileTypes, m \in BuilderMethods}

InitFile ==
    /\ EngineInit
    /\ call \in FileInputs

\* the document record built from what compress_data returned
Document(file_data, file_type, returned) ==
    [original_size |-> BLen(file_data),
     compressed_size |-> returned.metadata.compressed_size,
     file_type |-> file_type,
     compression |-> returned.metadata,
     data |-> returned.compressed]

\* process_file_with_compression from the read of the file to the document
process_file_with_compression(file_data, file_type, compression_method, elapsed_ms, times) ==
    Then(compress_data(file_data, compression_method, 6, elapsed_ms, times),
         LAMBDA returned : Ok(Document(file_data, file_type, returned)))

\* the statistics after the compress_data call of the builder
StatsAfter(stats, out, elapsed_ms) ==
    IF out.ok
    THEN _update_stats(stats, out.val.compression.method, out.val.original_size,
                       out.val.compressed_size, elapsed_ms)
    ELSE stats

\* one call of process_file_with_compression on the file in hand
ProcessFileWithCompression ==
    /\ call.op = "file"
    /\ \E elapsed_ms \in ElapsedMs, times \in CallTimes \ {AllRaise} :
        /\ RunsHybrid([data |-> call.data, method |-> call.compression_method])
           \/ times = NoSlow
        /\ With(process_file_with_compression(call.data, call.file_type,
                    call.compression_method, elapsed_ms, times),
                LAMBDA out :
                /\ call' = [op |-> "process_file_with_compression",
                            data |-> call.data, file_type |-> call.file_type,
                            compression_method |-> call.compression_method,
                            out |-> out]
                /\ compression_stats' = StatsAfter(compression_stats, out, elapsed_ms))
    /\ UNCHANGED <<LZ4_SUPPORT, ZSTD_SUPPORT, available_methods>>

NextFile == ProcessFileWithCompression

SpecFile == InitFile /\ [][NextFile]_vars

(***************************************************************************)
(* Several compress_data calls on one engine, with a log of the calls that *)
(* returned: the length of the input, the string and the metadata.         *)
(***************************************************************************)
\* most compress_data calls that return in a logged run
MaxLogged == 2

\* the calls of a logged run: codecs that run, a codec that raises (base91
\* on the byte 200, gzip at level -2), an unknown name, and an empty payload
LoggedRequests ==
    {[data |-> ToBlob(<<200>>), method |-> m, level |-> 6] :
        m \in {"gzip_base64", "z85", "base91", "hybrid", "auto", "no_such_method"}}
    \cup
    {[data |-> ToBlob(<<200>>), method |-> "gzip_base64", level |-> -2],
     [data |-> ToBlob(<<0, 0>>), method |-> "z85", level |-> 6],
     [data |-> ToBlob(<<>>), method |-> "z85", level |-> 6]}

InitLogged ==
    /\ EngineInit
    /\ call = [op |-> "__init__", log |-> <<>>]

\* the log after a call: a call that raised leaves no entry
Logged(log, req, out) ==
    IF out.ok
    THEN Append(log, [input_len |-> BLen(req.data),
                      string_len |-> Len(out.val.compressed),
                      metadata |-> out.val.metadata])
    ELSE log

\* the end of a logged compress_data call
CompressDataLoggedEnds(req, elapsed_ms, out) ==
    /\ call' = [op |-> "compress_data", data |-> req.data, method |-> req.method,
                level |-> req.level, out |-> out,
                log |-> Logged(call.log, req, out)]
    /\ compression_stats' =
           IF out.ok
           THEN _update_stats(compression_stats, out.val.metadata.method,
                              out.val.metadata.original_size,
                              out.val.metadata.compressed_size, elapsed_ms)
           ELSE compression_stats

\* one call of compress_data in a logged run
CompressDataLogged ==
    /\ Len(call.log) < MaxLogged
    /\ \E req \in LoggedRequests, elapsed_ms \in ElapsedMs :
        CompressDataLoggedEnds(req, elapsed_ms,
            compress_data(req.data, req.method, req.level, elapsed_ms, NoSlow))
    /\ UNCHANGED <<LZ4_SUPPORT, ZSTD_SUPPORT, available_methods>>

NextLogged == CompressDataLogged

SpecLogged == InitLogged /\ [][NextLogged]_vars

(***************************************************************************)
(* compress_data called from several threads on one engine.  The code      *)
(* takes no lock; every statement of _update_stats reads an entry of       *)
(* compression_stats and then writes it, and another thread may run        *)
(* between the read and the write.                                         *)
(***************************************************************************)
\* the threads that call compress_data
NumThreads == 2

Threads == 1..NumThreads

\* the calls the threads make
ThreadRequests ==
    {[data |-> ToBlob(<<200>>), method |-> m, level |-> 6] :
        m \in {"gzip_base64", "z85"}}

\* the entries of compression_stats that lines 530-533 add to, in order
StatFields ==
    <<"files_processed", "total_original_size", "total_compressed_size",
      "total_processing_time">>

\* what a call adds to the k-th of them
StatDelta(k, th) ==
    CASE k = 1 -> 1
      [] k = 2 -> th.out.val.metadata.original_size
      [] k = 3 -> th.out.val.metadata.compressed_size
      [] k = 4 -> th.out.val.metadata.processing_time_ms

\* positions of a thread: 0 before the call; 2k-1 and 2k before the read
\* and the write of the k-th field; then the statements of lines 535-537
PcTest == 2 * Len(StatFields) + 1
PcInsert == PcTest + 1
PcRead == PcTest + 2
PcWrite == PcTest + 3
PcDone == PcTest + 4

InitThreads ==
    /\ EngineInit
    /\ call = [op |-> "threads",
               threads |-> [t \in Threads |-> [pc |-> 0, tmp |-> 0]]]

\* the thread t moves to the record th
ThreadMoves(t, th) ==
    call' = [call EXCEPT !.threads[t] = th]

\* compress_data up to the call of _update_stats
ThreadCompresses(t) ==
    /\ call.threads[t].pc = 0
    /\ \E req \in ThreadRequests, elapsed_ms \in ElapsedMs :
        ThreadMoves(t, [pc |-> 1, tmp |-> 0, req |-> req,
                        out |-> compress_data(req.data, req.method, req.level,
                                              elapsed_ms, NoSlow)])
    /\ UNCHANGED compression_stats

\* the read of self.compression_stats[field] += delta
ThreadReadsField(t) ==
    /\ \E k \in 1..Len(StatFields) :
        /\ call.threads[t].pc = 2 * k - 1
        /\ ThreadMoves(t, [call.threads[t] EXCEPT
                              !.pc = 2 * k,
                              !.tmp = compression_stats[StatFields[k]]])
    /\ UNCHANGED compression_stats

\* the write of self.compression_stats[field] += delta
ThreadWritesField(t) ==
    \E k \in 1..Len(StatFields) :
        /\ call.threads[t].pc = 2 * k
        /\ compression_stats' =
               [compression_stats EXCEPT
                   ![StatFields[k]] = call.threads[t].tmp + StatDelta(k, call.threads[t])]
        /\ ThreadMoves(t, [call.threads[t] EXCEPT !.pc = 2 * k + 1, !.tmp = 0])

\* if method not in self.compression_stats['method_usage']
ThreadTestsMethod(t) ==
    /\ call.threads[t].pc = PcTest
    /\ ThreadMoves(t, [call.threads[t] EXCEPT
           !.pc = IF call.threads[t].out.val.metadata.method
                       \in DOMAIN compression_stats.method_usage
                  THEN PcRead ELSE PcInsert])
    /\ UNCHANGED compression_stats

\* method_usage with the count of method set to n
UsageSet(usage, method, n) ==
    [m \in DOMAIN usage \cup {method} |-> IF m = method THEN n ELSE usage[m]]

\* self.compression_stats['method_usage'][method] = 0
ThreadInsertsMethod(t) ==
    /\ call.threads[t].pc = PcInsert
    /\ compression_stats' =
           [compression_stats EXCEPT
               !.method_usage = UsageSet(@, call.threads[t].out.val.metadata.method, 0)]
    /\ ThreadMoves(t, [call.threads[t] EXCEPT !.pc = PcRead])

\* the read of self.compression_stats['method_usage'][method] += 1
ThreadReadsMethod(t) ==
    /\ call.threads[t].pc = PcRead
    /\ ThreadMoves(t, [call.threads[t] EXCEPT
           !.pc = PcWrite,
           !.tmp = compression_stats.method_usage[
                       call.threads[t].out.val.metadata.method]])
    /\ UNCHANGED compression_stats

\* the write of self.compression_stats['method_usage'][method] += 1, and
\* the return of compress_data
ThreadWritesMethod(t) ==
    /\ call.threads[t].pc = PcWrite
    /\ compression_stats' =
           [compression_stats EXCEPT
               !.method_usage = UsageSet(@, call.threads[t].out.val.metadata.method,
                                         call.threads[t].tmp + 1)]
    /\ ThreadMoves(t, [call.threads[t] EXCEPT !.pc = PcDone, !.tmp = 0])

NextThreads ==
    \E t \in Threads :
        /\ \/ ThreadCompresses(t)
           \/ ThreadReadsField(t)
           \/ ThreadWritesField(t)
           \/ ThreadTestsMethod(t)
           \/ ThreadInsertsMethod(t)
           \/ ThreadReadsMethod(t)
           \/ ThreadWritesMethod(t)
        /\ UNCHANGED <<LZ4_SUPPORT, ZSTD_SUPPORT, available_methods>>

SpecThreads == InitThreads /\ [][NextThreads]_vars

(***************************************************************************)
(* The hybrid benchmarker on its own: two runs on the same payload, each   *)
(* with its own measured times.                                            *)
(***************************************************************************)
\* the times measured for the hybrid candidates: at most one is slow
HybridTimes ==
    {NoSlow} \cup {[NoSlow EXCEPT ![m].ms = SlowMs] : m \in HybridNames}

InitHybrid ==
    /\ EngineInit
    /\ call \in {[op |-> "payload", data |-> d, runs |-> <<>>] :
                    d \in SmallPayloads \cup LargePayloads}

\* _hybrid_compress(data), with the times it measures
HybridCompress ==
    /\ call.op \in {"payload", "_hybrid_compress"}
    /\ Len(call.runs) < 2
    /\ \E times \in HybridTimes :
        call' = [op |-> "_hybrid_compress", data |-> call.data,
                 runs |-> Append(call.runs,
                                 [times |-> times,
                                  out |-> _hybrid_compress(call.data, times)])]
    /\ Unchanged

NextHybrid == HybridCompress

SpecHybrid == InitHybrid /\ [][NextHybrid]_vars

(***************************************************************************)
(* decompress_data on a string and metadata of any origin.                 *)
(***************************************************************************)
\* most segments of a STREAM string handed to decompress_data
MaxSegs == 2

\* what stands between the "|" of a STREAM string: a chunk as the encoder
\* writes it, nothing, and text that is no base64 of a gzip stream
Segments ==
    {_gzip_then_base64(ToBlob(<<65>>), 6).val, <<>>, <<"Q", "Q", "=", "=">>}

\* the count field of a STREAM string
CountFields ==
    {<<"0">>, <<"1">>, <<"2">>, <<"3">>, <<"0", "2">>, <<"-", "1">>, <<"x">>, <<>>}

\* "STREAM:" + count + ":" + "|".join(segs)
StreamString(count, segs) ==
    <<"S", "T", "R", "E", "A", "M", ":">> \o count \o <<":">> \o Join(segs, <<"|">>)

StreamStrings ==
    {StreamString(c, segs) : c \in CountFields, segs \in SeqsUpTo(Segments, MaxSegs)}

\* strings of the other codecs, as their encoders write them
CodecStrings ==
    {_gzip_then_base64(ToBlob(<<65>>), 6).val,
     _deflate_then_base64(ToBlob(<<65>>), 6).val,
     _encode_z85(<<65>>),
     b64encode(<<65>>),
     <<>>}

\* the padding field of a Z85 string
PaddingFields ==
    {<<"0">>, <<"3">>, <<"4">>, <<"9">>, <<"-", "1">>, <<"x">>, <<>>}

\* the 5 digits _encode_z85 writes for the byte 65 and its padding
Z85Group == Slice(_encode_z85(<<65>>), 6, 11)

\* the digits of a Z85 string: none, one group of 5, a group cut short, a
\* group and a part of a second one, and two groups
DigitStrings ==
    {<<>>,
     Z85Group,
     Slice(Z85Group, 0, 4),
     Z85Group \o <<"0", "0">>,
     Z85Group \o <<"0", "0", "0", "0", "0">>}

\* "Z85:" + padding + ":" + digits
Z85String(padding, digits) == <<"Z", "8", "5", ":">> \o padding \o <<":">> \o digits

Z85Strings == {Z85String(pad, digits) : pad \in PaddingFields, digits \in DigitStrings}

\* strings with a prefix in another case, without the field after the
\* count, or without any prefix
BrokenFrames ==
    {<<"z", "8", "5", ":", "0", ":">>,
     <<"Z", "8", "5", ":", "0">>,
     <<"Z", "8", "5">>,
     <<"S", "T", "R", "E", "A", "M", ":", "1">>,
     <<"s", "t", "r", "e", "a", "m", ":", "0", ":">>,
     _encode_base91(<<65>>).val,
     Slice(_encode_base91(<<65>>).val, 4, Len(_encode_base91(<<65>>).val)),
     <<"b", "9", "1", ":">>}

\* metadata.method: the names decompress_data tests for, and others
ArtifactMethods ==
    Methods \cup {"base64_only", "auto", "no_such_method", "GZIP_BASE64", ""}

InitArtifact ==
    /\ EngineInit
    /\ call \in {[op |-> "artifact", compressed |-> s, metadata |-> [method |-> m]] :
                    s \in StreamStrings \cup Z85Strings \cup BrokenFrames \cup CodecStrings,
                    m \in ArtifactMethods}

\* decompress_data(compressed_data, metadata)
DecompressArtifact ==
    /\ call.op = "artifact"
    /\ call' = [op |-> "decompress_data", compressed |-> call.compressed,
                metadata |-> call.metadata,
                out |-> decompress_data(call.compressed, call.metadata)]
    /\ Unchanged

NextArtifact == DecompressArtifact

SpecArtifact == InitArtifact /\ [][NextArtifact]_vars

(***************************************************************************)
(* The hybrid benchmarker with candidates that raise.                      *)
(***************************************************************************)
\* the runs of the candidates: each encoder returns at once, returns slowly,
\* or raises
BenchTimes ==
    [HybridNames -> {[ms |-> 0, raised |-> FALSE], [ms |-> SlowMs, raised |-> FALSE],
                     [ms |-> 0, raised |-> TRUE]}]

\* payloads one byte under the two size thresholds of the candidate list
ThresholdPayloads ==
    {Blob(<<>>, 100 * 1024 - 1), Blob(<<>>, 1024 * 1024 - 1)}

InitBench ==
    /\ EngineInit
    /\ call \in {[op |-> "payload", data |-> d] :
                    d \in SmallPayloads \cup ThresholdPayloads \cup LargePayloads}

\* _hybrid_compress(data) up to its loop: the list methods_to_try
HybridListsCandidates ==
    /\ call.op = "payload"
    /\ call' = [op |-> "methods_to_try", data |-> call.data,
                tried |-> methods_to_try(call.data)]
    /\ Unchanged

\* whether every candidate of the list raises in the run
AllRaised(tried, times) == \A k \in 1..Len(tried) : times[tried[k]].raised

\* the loop of _hybrid_compress(data) and its return, with what happens to
\* each candidate; the loop is run where z85 is tried on a small payload
\* only, and a run in which every encoder raises on the small payloads
HybridCompressBench ==
    /\ call.op = "methods_to_try"
    /\ call.data \in SmallPayloads \/ \A k \in 1..Len(call.tried) : call.tried[k] # "z85"
    /\ \E times \in BenchTimes :
        /\ AllRaised(call.tried, times) => call.data \in SmallPayloads
        /\ call' = [op |-> "_hybrid_compress", data |-> call.data,
                    tried |-> call.tried, times |-> times,
                    out |-> _hybrid_compress(call.data, times)]
    /\ Unchanged

NextBench == HybridListsCandidates \/ HybridCompressBench

SpecBench == InitBench /\ [][NextBench]_vars

(***************************************************************************)
(* The operations of one engine in any order, with the reports handed to   *)
(* the caller.                                                             *)
(***************************************************************************)
\* most compress_data calls that return in a run of operations
MaxReturned == 2

\* the processing times measured in a run of operations, in milliseconds.
\* time.time() is the wall clock: the difference of two readings is
\* negative when the clock was set back between them
ClockMs == {-3, 3}

\* the compress_data calls of a run: two codecs that return, the empty
\* payload, on which compress_data raises, and a level the backend refuses
OpRequests ==
    {[data |-> ToBlob(<<200>>), method |-> "gzip_base64", level |-> 6],
     [data |-> ToBlob(<<200>>), method |-> "z85", level |-> 6],
     [data |-> ToBlob(<<>>), method |-> "gzip_base64", level |-> 6],
     [data |-> ToBlob(<<200>>), method |-> "gzip_base64", level |-> -2]}

\* the strings and method names given to decompress_data: one that decodes,
\* one that does not, one of a method without a decoder
OpArtifacts ==
    {[compressed |-> _gzip_then_base64(ToBlob(<<200>>), 6).val, method |-> m] :
        m \in {"gzip_base64", "z85", "hybrid"}}

\* max(method_usage, key=method_usage.get): the first key, in the order the
\* keys were inserted, of the highest count; None for an empty dict
RECURSIVE MostUsed(_, _, _)
MostUsed(usage, order, best) ==
    IF order = <<>> THEN best
    ELSE MostUsed(usage, Tail(order),
                  IF best = "None" \/ usage[Head(order)] > usage[best]
                  THEN Head(order) ELSE best)

\* the keys stats.update adds when total_original_size > 0
ReportExtras(stats, order) ==
    Then(OneMinus(stats.total_compressed_size, stats.total_original_size),
         LAMBDA overall_ratio :
    Then(OneMinus(stats.total_compressed_size, Base64Size(stats.total_original_size)),
         LAMBDA improvement_vs_base64 :
    Then(Div(stats.total_original_size * 1000, stats.total_processing_time * 1024 * 1024),
         LAMBDA avg_processing_speed :
    Ok([overall_compression_ratio |-> overall_ratio,
        space_saved_bytes |-> stats.total_original_size - stats.total_compressed_size,
        improvement_vs_base64 |-> improvement_vs_base64,
        avg_processing_speed_mbps |-> avg_processing_speed,
        most_used_method |-> MostUsed(stats.method_usage, order, "None")]))))

\* get_compression_report: the dict it returns. stats.copy() is a shallow
\* copy: the numbers are copied, while the value under 'method_usage' is the
\* very dict object of the engine, so the report holds no counts of its own
get_compression_report(stats, order) ==
    With([files_processed |-> stats.files_processed,
          total_original_size |-> stats.total_original_size,
          total_compressed_size |-> stats.total_compressed_size,
          total_processing_time |-> stats.total_processing_time,
          method_usage |-> "self.compression_stats['method_usage']"],
         LAMBDA copy :
    IF stats.total_original_size > 0
    THEN Then(ReportExtras(stats, order), LAMBDA extras : Ok([copy |-> copy, extras |-> <<extras>>]))
    ELSE Ok([copy |-> copy, extras |-> <<>>]))

\* what the caller reads in a report it holds: method_usage is read through
\* the shared dict object
ReadReport(report, stats) ==
    [report EXCEPT !.copy.method_usage = stats.method_usage]

\* the key order of method_usage after a call recorded under method
KeyOrder(order, usage, method) ==
    IF method \in DOMAIN usage THEN order ELSE Append(order, method)

InitOps ==
    /\ EngineInit
    /\ call = [op |-> "__init__", out |-> Ok(<<>>), order |-> <<>>, reports |-> <<>>]

\* one call of compress_data, its update of the statistics included
OpCompressData ==
    /\ compression_stats.files_processed < MaxReturned
    /\ \E req \in OpRequests, elapsed_ms \in ClockMs :
        With(compress_data(req.data, req.method, req.level, elapsed_ms, NoSlow),
             LAMBDA out :
             /\ call' = [call EXCEPT
                            !.op = "compress_data", !.out = out,
                            !.order = IF out.ok
                                      THEN KeyOrder(@, compression_stats.method_usage,
                                                    out.val.metadata.method)
                                      ELSE @]
             /\ compression_stats' =
                    IF out.ok
                    THEN _update_stats(compression_stats, out.val.metadata.method,
                                       out.val.metadata.original_size,
                                       out.val.metadata.compressed_size, elapsed_ms)
                    ELSE compression_stats)
    /\ UNCHANGED <<LZ4_SUPPORT, ZSTD_SUPPORT, available_methods>>

\* one call of decompress_data
OpDecompressData ==
    /\ \E a \in OpArtifacts :
        call' = [call EXCEPT !.op = "decompress_data",
                             !.out = decompress_data(a.compressed, [method |-> a.method])]
    /\ Unchanged

\* one call of determine_optimal_method
OpDetermineOptimalMethod ==
    /\ \E n \in {0, 1024 * 1024} :
        call' = [call EXCEPT !.op = "determine_optimal_method",
                             !.out = Ok(determine_optimal_method(Blob(<<>>, n), "unknown"))]
    /\ Unchanged

\* a variant of the report call below that detects the capabilities again
\* and finds lz4
OpGetCompressionReportRedetects ==
    /\ With(get_compression_report(compression_stats, call.order), LAMBDA out :
            call' = [call EXCEPT !.op = "get_compression_report", !.out = out,
                                 !.reports = IF out.ok THEN <<out.val>> ELSE @])
    /\ available_methods' = [available_methods EXCEPT !["lz4_base64"] = TRUE]
    /\ UNCHANGED <<LZ4_SUPPORT, ZSTD_SUPPORT, compression_stats>>

\* one call of get_compression_report; the caller keeps the report
OpGetCompressionReport ==
    /\ With(get_compression_report(compression_stats, call.order), LAMBDA out :
            call' = [call EXCEPT !.op = "get_compression_report", !.out = out,
                                 !.reports = IF out.ok THEN <<out.val>> ELSE @])
    /\ Unchanged

\* the caller assigns to a number of a report it holds
CallerWritesNumber ==
    /\ call.reports # <<>>
    /\ call' = [call EXCEPT !.op = "report['files_processed'] = 0",
                            !.out = Ok(<<>>),
                            !.reports[1].copy.files_processed = 0]
    /\ Unchanged

\* the caller assigns to a count of a report it holds:
\* report['method_usage'][method] = 0 writes to the dict object the engine
\* holds
CallerWritesUsage ==
    /\ call.reports # <<>>
    /\ \E method \in DOMAIN compression_stats.method_usage :
        compression_stats' = [compression_stats EXCEPT !.method_usage[method] = 0]
    /\ call' = [call EXCEPT !.op = "report['method_usage'][method] = 0", !.out = Ok(<<>>)]
    /\ UNCHANGED <<LZ4_SUPPORT, ZSTD_SUPPORT, available_methods>>

NextOps ==
    \/ OpCompressData
    \/ OpDecompressData
    \/ OpDetermineOptimalMethod
    \/ OpGetCompressionReport
    \/ CallerWritesNumber
    \/ CallerWritesUsage

SpecOps == InitOps /\ [][NextOps]_vars

(***************************************************************************)
(* The claims.                                                             *)
(***************************************************************************)
\* C1: compress_data never raises: for every payload, the empty one
\* included, every requested method and every compression level it returns
\* an (encoded string, metadata) pair.
C1_CompressDataNeverRaises ==
    call.op = "compress_data" => call.out.ok

\* C2: when lz4_base64 or zstd_base64 is requested and its backend is
\* unavailable, the method recorded in the returned metadata is the codec
\* that really ran and not the requested one, so that decompress_data on
\* the returned string and metadata returns the payload.
C2_MetadataNamesActualCodec ==
    (/\ call.op = "decompress_data"
     /\ \/ call.method = "lz4_base64" /\ ~LZ4_SUPPORT
        \/ call.method = "zstd_base64" /\ ~ZSTD_SUPPORT)
    => /\ call.metadata.method # call.method
       /\ call.out = Ok(call.data)

\* C3: for every payload p, of a length that is a multiple of 4 or not,
\* ending in zero bytes or not, _decode_z85(_encode_z85(p)) is p.
C3_Z85RoundTrip ==
    call.op = "_decode_z85" => call.out = Ok(call.data)

\* a payload of 5 bytes ending in a zero byte has come back from the decoder
C3_Witness ==
    /\ call.op = "_decode_z85"
    /\ Len(call.data) = 5
    /\ call.data[5] = 0
    /\ call.out = Ok(call.data)

\* C4: compress_data(b"", method="z85") returns a string and metadata, and
\* decompress_data on them returns b"".
C4_EmptyPayloadZ85 ==
    /\ (call.op = "compress_data" /\ BLen(call.data) = 0 /\ call.method = "z85")
       => call.out.ok
    /\ (call.op = "decompress_data" /\ BLen(call.data) = 0 /\ call.method = "z85")
       => call.out = Ok(call.data)

\* C5: for every payload p that _encode_base91 encodes,
\* _decode_base91(_encode_base91(p)) is p: exactly len(p) bytes and no extra
\* trailing byte.
C5_Base91RoundTrip ==
    call.op = "_decode_base91" => call.out = Ok(call.data)

\* C6: for every chunk size c >= 1 and every payload of k >= 1 chunks or of
\* k chunks and a shorter remainder, _streaming_gzip_base64 declares k
\* (respectively k + 1) chunks in its header (80 for 5 MiB at 64 KiB), its
\* i-th segment holds the bytes from offset (i - 1) * c up to i * c, and
\* _streaming_gunzip_base64 gives the payload back.
C6_StreamingEquivalence ==
    /\ (call.op = "_streaming_gzip_base64" /\ BLen(call.data) >= 1) =>
        LET n     == BLen(call.data)
            c     == call.chunk_size
            count == IF n % c = 0 THEN n \div c ELSE (n \div c) + 1
            parts == SplitMax(call.out, ":", 2)
            segs  == Split(parts[3], "|")
        IN  /\ Len(parts) = 3
            /\ parts[1] = <<"S", "T", "R", "E", "A", "M">>
            /\ parts[2] = IntToStr(count)
            /\ Len(segs) = count
            /\ \A i \in 1..count :
                 _base64_then_gunzip(segs[i]) = Ok(BSlice(call.data, (i - 1) * c, i * c))
            /\ (n = 5 * 1024 * 1024 /\ c = 64 * 1024) => parts[2] = <<"8", "0">>
    /\ (call.op = "_streaming_gunzip_base64" /\ BLen(call.data) >= 1) =>
        call.out = Ok(call.data)

\* a payload of two chunks or more and a shorter remainder has come back
\* from the decoder
C6_Witness ==
    /\ call.op = "_streaming_gunzip_base64"
    /\ BLen(call.data) > 2 * call.chunk_size
    /\ BLen(call.data) % call.chunk_size # 0
    /\ call.out = Ok(call.data)

\* C7: _streaming_gunzip_base64(_streaming_gzip_base64(b"")) returns b"".
C7_StreamingEmptyPayload ==
    (call.op = "_streaming_gunzip_base64" /\ BLen(call.data) = 0)
    => call.out = Ok(call.data)

\* C8: the string and metadata compress_data(p, method="hybrid") returns are
\* accepted by decompress_data, which returns p.
C8_HybridRoundTrip ==
    (call.op = "decompress_data" /\ call.method = "hybrid")
    => call.out = Ok(call.data)

\* C9: for every non-empty payload of every size class, decompress_data on
\* the string and metadata compress_data(p, method="auto") returned gives p.
C9_AutoRoundTrip ==
    (call.op = "decompress_data" /\ call.method = "auto" /\ BLen(call.data) > 0)
    => call.out = Ok(call.data)

\* C10: the selector applies its rules in order, first match wins: size >
\* 10 MiB gives streaming_gzip; else a hint in {image, video, audio} and size
\* > 100 KiB gives z85; else a text-like hint gives zstd_base64 if available
\* and size > 1 MiB, else brotli_base64 if available, else gzip_base64; else
\* size < 100 KiB gives lz4_base64 if available, else z85; else size < 1 MiB
\* gives gzip_base64; otherwise hybrid. Sizes equal to a threshold fall
\* through to the later rule.
C10_SelectorRules ==
    call.op = "determine_optimal_method" =>
        LET size == BLen(call.data)
            hint == call.file_type
        IN  call.out =
                IF size > 10485760 THEN "streaming_gzip"
                ELSE IF hint \in {"image", "video", "audio"} /\ size > 102400 THEN "z85"
                ELSE IF hint \in {"pdf", "text", "json", "xml"}
                THEN IF ZSTD_SUPPORT /\ size > 1048576 THEN "zstd_base64"
                     ELSE IF available_methods["brotli_base64"] THEN "brotli_base64"
                     ELSE "gzip_base64"
                ELSE IF size < 102400
                THEN IF LZ4_SUPPORT THEN "lz4_base64" ELSE "z85"
                ELSE IF size < 1048576 THEN "gzip_base64"
                ELSE "hybrid"

\* an image of exactly 100 KiB fell through to the rule for sizes below 1 MiB
C10_Witness ==
    /\ call.op = "determine_optimal_method"
    /\ BLen(call.data) = 102400
    /\ call.file_type = "image"
    /\ call.out = "gzip_base64"

\* C11: when a file detected as image, video or audio, of a size above
\* 100 KiB and at most 10 MiB, is compressed in auto mode by
\* process_file_with_compression, the codec chosen is z85.
C11_HintReachesSelector ==
    (/\ call.op = "process_file_with_compression"
     /\ call.compression_method = "auto"
     /\ call.file_type \in {"image", "video", "audio"}
     /\ BLen(call.data) > 100 * 1024
     /\ BLen(call.data) <= 10 * 1024 * 1024)
    => /\ call.out.ok
       /\ call.out.val.compression.method = "z85"

\* the sum of a sequence of integers
RECURSIVE SumSeq(_)
SumSeq(s) == IF s = <<>> THEN 0 ELSE s[1] + SumSeq(Tail(s))

\* the number of entries of a log whose metadata.method is m
LogCount(log, m) ==
    Cardinality({i \in 1..Len(log) : log[i].metadata.method = m})

\* C12: after N compress_data calls that returned, files_processed is N,
\* total_original_size is the sum of the input lengths, total_compressed_size
\* is the sum of the lengths of the returned strings, each equal to its
\* call's metadata.compressed_size, and method_usage[m] is the number of
\* calls whose metadata.method is m, so that the counts sum to N.
C12_StatsConsistency ==
    /\ compression_stats.files_processed = Len(call.log)
    /\ compression_stats.total_original_size =
           SumSeq([i \in 1..Len(call.log) |-> call.log[i].input_len])
    /\ compression_stats.total_compressed_size =
           SumSeq([i \in 1..Len(call.log) |-> call.log[i].string_len])
    /\ \A i \in 1..Len(call.log) :
           call.log[i].string_len = call.log[i].metadata.compressed_size
    /\ DOMAIN compression_stats.method_usage =
           {call.log[i].metadata.method : i \in 1..Len(call.log)}
    /\ \A m \in DOMAIN compression_stats.method_usage :
           compression_stats.method_usage[m] = LogCount(call.log, m)

\* two calls have returned, the first by the raw fallback, the second with
\* the same codec name again
C12_Witness ==
    /\ Len(call.log) = 2
    /\ call.log[1].metadata.method = "base64_only"
    /\ call.log[2].metadata.method = "base64_only"
    /\ compression_stats.method_usage["base64_only"] = 2

\* C13: when several threads run compress_data on one engine, the updates
\* of the statistics are serialized: once every call has returned,
\* files_processed, total_original_size, total_compressed_size and each
\* method_usage count are the sums of what the calls add.
C13_NoLostUpdate ==
    (call.op = "threads" /\ \A t \in Threads : call.threads[t].pc = PcDone)
    => /\ \A k \in 1..3 :
            compression_stats[StatFields[k]] =
                SumSeq([t \in Threads |-> StatDelta(k, call.threads[t])])
       /\ \A m \in {call.threads[t].out.val.metadata.method : t \in Threads} :
            /\ m \in DOMAIN compression_stats.method_usage
            /\ compression_stats.method_usage[m] =
                   Cardinality({t \in Threads :
                                   call.threads[t].out.val.metadata.method = m})

\* the codec name in the prefix of a string _hybrid_compress returned
HybridName(out) == SplitMax(out, ":", 2)[2]

\* C14: two runs of the hybrid benchmarker on the same payload with the same
\* capability set select the same winning codec name, whatever times are
\* measured for the candidates in each run.
C14_HybridDeterminism ==
    (call.op = "_hybrid_compress" /\ Len(call.runs) = 2)
    => HybridName(call.runs[1].out) = HybridName(call.runs[2].out)

\* C15: whenever a candidate succeeds, _hybrid_compress returns exactly
\* "HYBRID:" + name + ":" + s, where name is a candidate that was run and
\* succeeded on this payload and s is the string its encoder returned.
C15_HybridFraming ==
    call.op = "_hybrid_compress" =>
        \A i \in 1..Len(call.runs) :
            \E k \in 1..Len(methods_to_try(call.data)) :
                /\ HybridEncode(methods_to_try(call.data)[k], call.data).ok
                /\ call.runs[i].out =
                       <<"H", "Y", "B", "R", "I", "D", ":">>
                           \o MethodChars(methods_to_try(call.data)[k])
                           \o <<":">>
                           \o HybridEncode(methods_to_try(call.data)[k], call.data).val

\* a run on a payload of 1 MiB returned the string of a candidate that is
\* not the first in the list
C15_Witness ==
    /\ call.op = "_hybrid_compress"
    /\ BLen(call.data) = 1024 * 1024
    /\ HybridName(call.runs[1].out) = MethodChars("deflate_base64")
    /\ call.runs[1].out =
           <<"H", "Y", "B", "R", "I", "D", ":">> \o MethodChars("deflate_base64")
               \o <<":">> \o _deflate_then_base64(call.data, 6).val

\* C16: for every payload, _encode_z85 writes the padding count
\* (4 - len % 4) % 4 in its "Z85:<padding>:" header, nonzero exactly when len
\* is not a multiple of 4, and 5 digits for each 4-byte group of the payload
\* padded with zero bytes; _decode_z85 removes exactly that many trailing
\* bytes and no others.
C16_Z85Padding ==
    /\ call.op = "_encode_z85" =>
        LET n       == Len(call.data)
            padding == IF n % 4 = 0 THEN 0 ELSE 4 - (n % 4)
            parts   == SplitMax(call.out, ":", 2)
        IN  /\ Len(parts) = 3
            /\ parts[1] = <<"Z", "8", "5">>
            /\ parts[2] = IntToStr(padding)
            /\ Len(parts[3]) = 5 * ((n + padding) \div 4)
            /\ Z85DecodeChunks(parts[3], 0) =
                   Ok(call.data \o [k \in 1..padding |-> 0])
    /\ call.op = "_decode_z85" => call.out = Ok(call.data)

\* a payload of 2 bytes was encoded with padding 2 and came back as 2 bytes
C16_Witness ==
    /\ call.op = "_decode_z85"
    /\ Len(call.data) = 2
    /\ StartsWith(call.encoded, <<"Z", "8", "5", ":", "2", ":">>)
    /\ Len(call.encoded) = 11
    /\ call.out = Ok(call.data)

\* C17: for every payload of N bytes that _encode_base91 encodes, the number
\* of symbols after the "B91:" prefix is at least ceil(8N / 13) and at most
\* ceil(8N / 13) + 1.
C17_Base91SymbolCount ==
    (call.op = "_encode_base91" /\ call.out.ok) =>
        LET N     == Len(call.data)
            count == Len(call.out.val) - 4
            least == (8 * N + 12) \div 13
        IN  /\ StartsWith(call.out.val, <<"B", "9", "1", ":">>)
            /\ least <= count
            /\ count <= least + 1

\* a payload of 5 bytes, 40 bits, was encoded in 4 symbols
C17_Witness ==
    /\ call.op = "_encode_base91"
    /\ call.out.ok
    /\ Len(call.data) = 5
    /\ Len(call.out.val) = 4 + 4

\* C18: decompress_data on a "STREAM:" string whose declared chunk count
\* differs from the number of "|"-separated segments fails with an error
\* and returns no bytes, for every declared count and segment count.
C18_ChunkCountMismatch ==
    (/\ call.op = "decompress_data"
     /\ call.metadata.method = "streaming_gzip"
     /\ StartsWith(call.compressed, <<"S", "T", "R", "E", "A", "M", ":">>)
     /\ LET parts == SplitMax(call.compressed, ":", 2)
        IN  /\ Len(parts) = 3
            /\ ParseInt(parts[2]).ok
            /\ ParseInt(parts[2]).val # Len(Split(parts[3], "|")))
    => ~call.out.ok

\* a string that declares 3 chunks and holds 2 well-formed ones was refused
C18_Witness ==
    /\ call.op = "decompress_data"
    /\ call.metadata.method = "streaming_gzip"
    /\ call.compressed =
           StreamString(<<"3">>, <<_gzip_then_base64(ToBlob(<<65>>), 6).val,
                                   _gzip_then_base64(ToBlob(<<65>>), 6).val>>)
    /\ call.out = Raise("ValueError")

\* C19: decompress_data fails with an error, and returns no bytes, whenever
\* metadata.method is not one of the codec names it recognizes, whatever the
\* string is.
C19_UnknownMethod ==
    (/\ call.op = "decompress_data"
     /\ call.metadata.method \notin
            {"gzip_base64", "deflate_base64", "brotli_base64", "lz4_base64",
             "zstd_base64", "z85", "base91", "streaming_gzip", "base64_only"})
    => ~call.out.ok

\* a name in another case was refused with a string gzip_base64 would decode
C19_Witness ==
    /\ call.op = "decompress_data"
    /\ call.metadata.method = "GZIP_BASE64"
    /\ call.compressed = _gzip_then_base64(ToBlob(<<65>>), 6).val
    /\ call.out = Raise("ValueError")

\* C20: if the chosen codec raises inside compress_data, the call returns
\* the plain base64 encoding of the payload with metadata.method =
\* 'base64_only', the call is counted in the statistics under 'base64_only',
\* and decompress_data with that metadata returns the payload.
C20_RawFallback ==
    (/\ call.op \in {"compress_data", "decompress_data"}
     /\ ~RunCodec(IF call.method = "auto"
                  THEN determine_optimal_method(call.data, "unknown")
                  ELSE call.method,
                  call.data, call.level, NoSlow).ok)
    => IF call.op = "compress_data"
       THEN /\ call.out.ok
            /\ call.out.val.compressed = b64encode(Bytes(call.data))
            /\ call.out.val.metadata.method = "base64_only"
            /\ "base64_only" \in DOMAIN compression_stats.method_usage
            /\ compression_stats.method_usage["base64_only"] >= 1
       ELSE call.out = Ok(call.data)

\* C21: when every hybrid candidate raises, compress_data(p, method='hybrid')
\* returns the base64 encoding of p and records 'base64_only' as
\* metadata.method, so that decompress_data with the returned metadata gives
\* p back.
C21_HybridAllFail ==
    (/\ call.op \in {"compress_data", "decompress_data"}
     /\ call.method = "hybrid"
     /\ call.times = AllRaise
     /\ BLen(call.data) > 0)
    => IF call.op = "compress_data"
       THEN /\ call.out.ok
            /\ call.out.val.compressed = b64encode(Bytes(call.data))
            /\ call.out.val.metadata.method = "base64_only"
       ELSE call.out = Ok(call.data)

\* whether candidate k of methods_to_try returned a string in the run
Succeeded(k) ==
    /\ ~call.times[methods_to_try(call.data)[k]].raised
    /\ HybridEncode(methods_to_try(call.data)[k], call.data).ok

\* the score of candidate k in the run
ScoreOf(k) ==
    Score(Len(HybridEncode(methods_to_try(call.data)[k], call.data).val),
          call.times[methods_to_try(call.data)[k]].ms)

\* C22: among the hybrid candidates that succeeded the winner has the highest
\* score; a candidate whose encoder raises is dropped and the remaining
\* candidates are still run and scored; when several candidates tie on the
\* highest score the earliest in the order gzip_base64, deflate_base64,
\* brotli_base64, lz4_base64, z85 wins.
C22_HybridSelection ==
    (/\ call.op = "_hybrid_compress"
     /\ \E k \in 1..Len(methods_to_try(call.data)) : Succeeded(k))
    => \E w \in 1..Len(methods_to_try(call.data)) :
          /\ Succeeded(w)
          /\ call.out =
                 <<"H", "Y", "B", "R", "I", "D", ":">>
                     \o MethodChars(methods_to_try(call.data)[w]) \o <<":">>
                     \o HybridEncode(methods_to_try(call.data)[w], call.data).val
          /\ \A k \in 1..Len(methods_to_try(call.data)) :
                Succeeded(k) =>
                    /\ ~ScoreGreater(ScoreOf(k), ScoreOf(w))
                    /\ k < w => ScoreGreater(ScoreOf(w), ScoreOf(k))

\* on the payload b'\xc8' brotli raised, the three candidates that remain
\* before z85 tied on the highest score, and gzip_base64, the earliest, won
C22_Witness ==
    /\ call.op = "_hybrid_compress"
    /\ LZ4_SUPPORT
    /\ call.data = ToBlob(<<200>>)
    /\ call.times["brotli_base64"].raised
    /\ call.times["z85"] = [ms |-> SlowMs, raised |-> FALSE]
    /\ \A m \in {"gzip_base64", "deflate_base64", "lz4_base64"} :
          call.times[m] = [ms |-> 0, raised |-> FALSE]
    /\ ScoreOf(1) = ScoreOf(2)
    /\ HybridName(call.out) = MethodChars("gzip_base64")

\* C23: for every payload size and capability set the codecs the hybrid
\* benchmarker tries are gzip_base64 and deflate_base64 always, brotli_base64
\* only if available, lz4_base64 only if LZ4 is available and size < 1 MiB,
\* and z85 only if size < 100 KiB; a backend codec whose backend is
\* unavailable is never tried.
C23_HybridCandidateSet ==
    call.op \in {"methods_to_try", "_hybrid_compress"} =>
        LET tried == {call.tried[k] : k \in 1..Len(call.tried)}
            size  == BLen(call.data)
        IN  /\ tried \subseteq HybridNames
            /\ "gzip_base64" \in tried
            /\ "deflate_base64" \in tried
            /\ "brotli_base64" \in tried <=> available_methods["brotli_base64"]
            /\ "lz4_base64" \in tried <=> (LZ4_SUPPORT /\ size < 1024 * 1024)
            /\ "z85" \in tried <=> size < 100 * 1024
            /\ \A m \in tried : available_methods[m]

\* with LZ4 missing, a payload one byte under 100 KiB is tried with z85 and
\* without lz4_base64
C23_Witness ==
    /\ call.op = "methods_to_try"
    /\ ~LZ4_SUPPORT
    /\ BLen(call.data) = 100 * 1024 - 1
    /\ call.tried = <<"gzip_base64", "deflate_base64", "brotli_base64", "z85">>

\* C24: for every payload size, content-type hint and capability set,
\* determine_optimal_method never returns a backend codec whose backend is
\* unavailable: lz4_base64 only when LZ4 is available, zstd_base64 only when
\* Zstandard is available, brotli_base64 only when brotli is available.
C24_SelectorAvailability ==
    call.op = "determine_optimal_method" =>
        /\ call.out = "lz4_base64" => LZ4_SUPPORT
        /\ call.out = "zstd_base64" => ZSTD_SUPPORT
        /\ call.out = "brotli_base64" => available_methods["brotli_base64"]
        /\ available_methods[call.out]

\* with Zstandard missing, a text payload above 1 MiB was given to
\* brotli_base64
C24_Witness ==
    /\ call.op = "determine_optimal_method"
    /\ ~ZSTD_SUPPORT
    /\ call.file_type = "text"
    /\ BLen(call.data) = 1024 * 1024 + 1
    /\ call.out = "brotli_base64"

\* the operations of the engine
EngineOps ==
    {"compress_data", "decompress_data", "determine_optimal_method",
     "get_compression_report"}

\* no counter and no total of the statistics is lower after the step
StatsNotLower ==
    /\ compression_stats'.files_processed >= compression_stats.files_processed
    /\ compression_stats'.total_original_size >= compression_stats.total_original_size
    /\ compression_stats'.total_compressed_size >= compression_stats.total_compressed_size
    /\ compression_stats'.total_processing_time >= compression_stats.total_processing_time
    /\ \A m \in DOMAIN compression_stats.method_usage :
          /\ m \in DOMAIN compression_stats'.method_usage
          /\ compression_stats'.method_usage[m] >= compression_stats.method_usage[m]

\* C25: the statistics are changed only by compress_data calls that return:
\* decompress_data, whether it returns or raises, determine_optimal_method,
\* get_compression_report and a compress_data call that raises leave every
\* field unchanged, and over any sequence of operations no counter or total
\* ever decreases.
C25_StatsFrame ==
    [][call'.op \in EngineOps =>
          /\ (call'.op # "compress_data" \/ ~call'.out.ok)
                => compression_stats' = compression_stats
          /\ StatsNotLower]_vars

\* C26: available_methods is computed once at construction, and no
\* compress_data, decompress_data, determine_optimal_method or
\* get_compression_report call changes any entry of it.
C26_CapabilitiesFixed ==
    /\ [](available_methods = _detect_available_methods)
    /\ [][call'.op \in EngineOps => available_methods' = available_methods]_vars

\* a report was asked for after two compress_data calls had returned on an
\* engine without lz4, and lz4_base64 is still marked unavailable
C26_Witness ==
    /\ call.op = "get_compression_report"
    /\ compression_stats.files_processed = 2
    /\ ~LZ4_SUPPORT
    /\ ~available_methods["lz4_base64"]

\* C30: a report returned by get_compression_report is a snapshot of the
\* statistics at the time of the call: a later compress_data call changes
\* no field of a report already returned, its method_usage counts included,
\* and writing to a returned report changes no field of the statistics of
\* the engine.
C30_ReportSnapshot ==
    [][call.reports # <<>> =>
          /\ call'.op = "compress_data" =>
                ReadReport(call'.reports[1], compression_stats')
                    = ReadReport(call.reports[1], compression_stats)
          /\ call'.op \notin EngineOps => compression_stats' = compression_stats]_vars

\* the prefix a self-describing codec writes
FramePrefix(method) ==
    CASE method = "z85" -> <<"Z", "8", "5", ":">>
      [] method = "base91" -> <<"B", "9", "1", ":">>
      [] method = "streaming_gzip" -> <<"S", "T", "R", "E", "A", "M", ":">>

\* a count field that is no number: no digit in it, or a character that is
\* neither a digit, a sign nor a space
NonNumeric(field) ==
    \/ \A i \in 1..Len(field) : ~IsDigit(field[i])
    \/ \E i \in 1..Len(field) : ~IsDigit(field[i]) /\ field[i] \notin {"+", "-", " "}

C28_Z85Grammar ==
    (/\ call.op = "decompress_data"
     /\ call.metadata.method = "z85"
     /\ StartsWith(call.compressed, <<"Z", "8", "5", ":">>)
     /\ Len(SplitMax(call.compressed, ":", 2)) = 3
     /\ ParseInt(SplitMax(call.compressed, ":", 2)[2]).ok
     /\ \/ ParseInt(SplitMax(call.compressed, ":", 2)[2]).val \notin 0..3
        \/ Len(SplitMax(call.compressed, ":", 2)[3]) % 5 # 0)
    => ~call.out.ok

\* C29: _encode_base91 completes for every payload: every 13-bit value it
\* emits has a symbol in its alphabet of 91 symbols, so the result is always
\* a string framed by "B91:" and compress_data(p, method='base91') records
\* metadata.method = 'base91'.
C29_Base91Completes ==
    (/\ call.op = "compress_data"
     /\ call.method = "base91"
     /\ BLen(call.data) > 0)
    => /\ _encode_base91(Bytes(call.data)).ok
       /\ call.out.ok
       /\ StartsWith(call.out.val.compressed, <<"B", "9", "1", ":">>)
       /\ call.out.val.metadata.method = "base91"
====
